---- MODULE Spec2Model ----
(***************************************************************************)
(* A model of the data-sync context (DataProvider): the session values it  *)
(* persists, the rows of the remote store it reads and writes, the mirror  *)
(* it keeps, and its operations.                                           *)
(*                                                                         *)
(* Strings are sequences of character codes (ASCII), so that lower- and    *)
(* upper-casing are computed, and a stored string may differ from the one  *)
(* a query asks for.  A store query compares strings exactly, as .eq does. *)
(*                                                                         *)
(* Spec      follows the session operations and the organizers table.      *)
(* SpecDraw  follows registration and draw on the participants table.      *)
(* SpecSync  follows the scoped fetches across changes of identity.          *)
(* SpecCompany follows the company, collaborator and prize mutations.        *)
(* SpecRaffle follows raffle creation from two clients, and code lookup.     *)
(* SpecDoc   follows the key conversions (toCamel, toSnake) on nested values. *)
(* SpecView  follows raffle creation in sessions an admin enters and leaves.  *)
(* SpecRace  follows registrations, draws and fetches request by request.     *)
(* SpecWheel follows the two wheel pages and their spins.                     *)
(***************************************************************************)
EXTENDS Integers, Sequences, FiniteSets, TLC

\* ------------------------------------------------------------ bounds
\* Rows the organizers table may hold.
MaxOrganizers == 2
\* Rows the participants table may hold.
MaxParticipants == 2
\* Rows the companies, collaborators and prizes tables may hold.
MaxCompanies == 2
MaxCollaborators == 1
MaxPrizes == 1
\* The most rows of the events and of the raffles table.
MaxEvents == 2
MaxRaffles == 3
\* The most calls of addParticipant and drawWinner that await a store request at once.
MaxCalls == 2
\* The deepest nesting of a converted value, and the most entries of a mapping or array.
MaxDepth == 2
MaxWidth == 2

\* ------------------------------------------------------------ values
\* null, where a row or a session record is expected.
None == [null |-> TRUE]
\* null, where an identifier is expected (identifiers are positive).
NoId == 0
\* null, where a string is expected.
NullStr == <<0>>
\* No value given to a conversion yet.
NoDoc == [kind |-> "none", of |-> << >>]
\* A scoped fetch that was not started.
NoFetch == [kind |-> "none", arg |-> NoId]

\* String.prototype.toLowerCase / toUpperCase on character codes.
ToLowerCase(s) == [i \in 1..Len(s) |-> IF s[i] >= 65 /\ s[i] <= 90 THEN s[i] + 32 ELSE s[i]]
ToUpperCase(s) == [i \in 1..Len(s) |-> IF s[i] >= 97 /\ s[i] <= 122 THEN s[i] - 32 ELSE s[i]]

\* The empty string (falsy).
Empty == << >>
\* "a", "A", "b": e-mail addresses, one of them in two letter cases.
Emails == { <<97>>, <<65>>, <<98>> }
\* "p", "P": passwords.
Passwords == { <<112>>, <<80>> }
\* "AB": the organizer code given in the organizer form.
OrganizerCode == <<65, 66>>
\* Event and raffle identifiers that the selection setters are given.
EventIds == {1, 2}
RaffleIds == {1, 2}
\* What a file input's photo field holds: nothing, or a raw file.
NoPhoto == "nophoto"
File == "file"
DEFAULT_IMAGE_URL == "default-image-url"
PublicUrl == "public-url"
\* null, where a URL is expected.
NullUrl == "null-url"
\* A draw time: null, or the time new Date() gave.
NullTime == "null-time"
Now == "now"

\* The colours of a company's wheel: the ones the store gives a new row, or chosen ones.
DefaultColors == "default-colors"
Colors == "colors"

\* The rows of the admins table (never written by this program): "r" / "s".
AdminsT == { [email |-> <<114>>, password_hash |-> <<115>>] }
AdminEmails == { <<114>>, <<82>>, <<98>> }
AdminPasswords == { <<115>>, <<83>> }
\* The rows the companies and collaborators tables start with: companies "C" and "D"
\* of event 1, collaborator "K" of the first and "L" of the second.
CompaniesT ==
  { [id |-> 1, event_id |-> 1, code |-> <<67>>, logo_url |-> DEFAULT_IMAGE_URL,
     roleta_colors |-> DefaultColors],
    [id |-> 2, event_id |-> 1, code |-> <<68>>, logo_url |-> DEFAULT_IMAGE_URL,
     roleta_colors |-> DefaultColors] }
CollaboratorsT ==
  { [id |-> 1, company_id |-> 1, code |-> <<75>>, photo_url |-> DEFAULT_IMAGE_URL],
    [id |-> 2, company_id |-> 2, code |-> <<76>>, photo_url |-> DEFAULT_IMAGE_URL] }
\* "c", "x": company codes typed at check-in; "k", "l": personal codes.
CompanyCodes == { <<99>>, <<120>> }
PersonalCodes == { <<107>>, <<108>> }

VARIABLES
  \* the store
  organizersT, eventsT, rafflesT, participantsT, companiesT, collaboratorsT, prizesT,
  \* the persisted session (useStickyState)
  loggedInOrganizer, loggedInCollaborator, selectedEventId, selectedRaffleId,
  isSuperAdmin, impersonatingFromAdmin,
  \* the mirror (useState)
  organizers, events, raffles, participants, companies, collaborators, prizes,
  \* scoped fetches awaiting their answer, and the one the last step started
  inflight, started,
  \* calls of createEventWithRaffle that await the answer to their insert
  pending,
  \* the value the conversions (toCamel, toSnake) are applied to
  doc,
  \* the rows a scoped fetch has read and its setters have not yet been given
  answers,
  \* the wheel page that is mounted ("collaborator", "public" or "none"), its state
  \* (useState), and the spin timeouts set and not yet fired
  mounted, step, participant, isSpun, isSpinning, winner, winningPrizeId,
  isWinnerModalOpen, timers,
  \* the last operation, what it returned (res) and the row it returned (val)
  last

companyVars == <<companiesT, collaboratorsT, prizesT>>
storeVars == <<organizersT, eventsT, rafflesT, participantsT, companyVars>>
sessionVars == <<loggedInOrganizer, loggedInCollaborator, selectedEventId, selectedRaffleId,
                 isSuperAdmin, impersonatingFromAdmin>>
mirrorVars == <<organizers, events, raffles, participants, companies, collaborators, prizes>>
wheelVars == <<mounted, step, participant, isSpun, isSpinning, winner, winningPrizeId,
               isWinnerModalOpen, timers>>
pageVars == <<pending, doc, answers, wheelVars>>
vars == <<storeVars, sessionVars, mirrorVars, inflight, started, pageVars, last>>

\* The state a wheel page is constructed with (useState), and no wheel page mounted.
wheelState ==
  /\ step = "register"
  /\ participant = [name |-> << >>, email |-> << >>, phone |-> << >>]
  /\ isSpun = FALSE
  /\ isSpinning = FALSE
  /\ winner = None
  /\ winningPrizeId = NoId
  /\ isWinnerModalOpen = FALSE
  /\ timers = 0
noWheel == mounted = "none" /\ wheelState

\* ------------------------------------------------------------ store queries
\* .single(): the row when exactly one matches, else no data (an error).
Single(rows) == IF Cardinality(rows) = 1 THEN CHOOSE r \in rows : TRUE ELSE None
\* .maybeSingle(): the row when exactly one matches; no data when none matches, and
\* no data with an error when several do.
MaybeSingle(rows) == IF Cardinality(rows) = 1 THEN CHOOSE r \in rows : TRUE ELSE None
\* The rows of a table kept as a sequence (a row's id is its index).
Rows(table) == { table[i] : i \in 1..Len(table) }

\* toCamel on an organizers row, a collaborators row.
organizerToCamel(data) ==
  [id |-> data.id, email |-> data.email, passwordHash |-> data.password_hash,
   photoUrl |-> data.photo_url, organizerCode |-> data.organizer_code]
collaboratorToCamel(data) ==
  [id |-> data.id, companyId |-> data.company_id, code |-> data.code,
   photoUrl |-> data.photo_url]
\* toCamel on a companies row, a prizes row, a participants row.
companyToCamel(data) ==
  [id |-> data.id, eventId |-> data.event_id, code |-> data.code, logoUrl |-> data.logo_url,
   roletaColors |-> data.roleta_colors]
prizeToCamel(data) == [id |-> data.id, companyId |-> data.company_id, name |-> data.name]
participantToCamel(data) ==
  [id |-> data.id, raffleId |-> data.raffle_id, email |-> data.email,
   isWinner |-> data.is_winner, drawnAt |-> data.drawn_at]
\* toCamel on an events row, a raffles row.
eventToCamel(data) == [id |-> data.id, organizerId |-> data.organizer_id]
raffleToCamel(data) ==
  [id |-> data.id, eventId |-> data.event_id, quantity |-> data.quantity, code |-> data.code]
\* toSnake on a participant of the application.
participantToSnake(p) ==
  [raffle_id |-> p.raffleId, email |-> p.email, is_winner |-> p.isWinner]

\* ------------------------------------------------------------ context value
\* value.loggedInOrganizer: the organizer the context exposes.
\* (ctxLoggedInOrganizer_noImp: the same without the impersonation test.)
ctxLoggedInOrganizer_noImp ==
  IF isSuperAdmin THEN None ELSE loggedInOrganizer
ctxLoggedInOrganizer ==
  IF impersonatingFromAdmin THEN loggedInOrganizer
  ELSE (IF isSuperAdmin THEN None ELSE loggedInOrganizer)

\* selectedEvent: the mirrored event that has the selected id, or null.
selectedEvent ==
  IF \E e \in events : e.id = selectedEventId
  THEN CHOOSE e \in events : e.id = selectedEventId
  ELSE None
\* loggedInCollaboratorCompany: the mirrored company of the stored collaborator, or null.
loggedInCollaboratorCompany ==
  IF loggedInCollaborator # None /\ \E c \in companies : c.id = loggedInCollaborator.companyId
  THEN CHOOSE c \in companies : c.id = loggedInCollaborator.companyId
  ELSE None
\* selectedRaffle: the mirrored raffle that has the selected id, or null.
selectedRaffle ==
  IF \E r \in raffles : r.id = selectedRaffleId
  THEN CHOOSE r \in raffles : r.id = selectedRaffleId
  ELSE None

\* The scoped fetch the effect starts for session values (a, imp, org, col).
scopedFetch(a, imp, org, col) ==
  IF a /\ ~imp THEN [kind |-> "admin", arg |-> NoId]
  ELSE IF org # None THEN [kind |-> "organizer", arg |-> org.id]
  ELSE IF col # None THEN [kind |-> "collaborator", arg |-> col.companyId]
  ELSE NoFetch
\* The effect runs after a render in which one of its dependencies changed.
effect(changed) ==
  started' = IF changed
             THEN scopedFetch(isSuperAdmin', impersonatingFromAdmin',
                              loggedInOrganizer', loggedInCollaborator')
             ELSE NoFetch

\* ------------------------------------------------------------ session operations
Returned(op, res) == last' = [op |-> op, res |-> res, val |-> NoId]

\* login(email, pass); answered: the store answered the lookup.
\* (login_noPass: the same without the credential comparison.)
login_noPass(email, pass, answered) ==
  LET data == IF answered
              THEN Single({ r \in Rows(organizersT) : r.email = ToLowerCase(email) })
              ELSE None
  IN  IF data = None
      THEN /\ UNCHANGED <<storeVars, sessionVars, mirrorVars, inflight, pageVars>>
           /\ started' = NoFetch
           /\ Returned("login", "invalid")
      ELSE /\ loggedInOrganizer' = organizerToCamel(data)
           /\ UNCHANGED <<loggedInCollaborator, selectedEventId, selectedRaffleId,
                          isSuperAdmin, impersonatingFromAdmin>>
           /\ UNCHANGED <<storeVars, mirrorVars, inflight, pageVars>>
           /\ effect(TRUE)
           /\ Returned("login", "ok")
login(email, pass, answered) ==
  LET data == IF answered
              THEN Single({ r \in Rows(organizersT) : r.email = ToLowerCase(email) })
              ELSE None
  IN  IF data = None
      THEN /\ UNCHANGED <<storeVars, sessionVars, mirrorVars, inflight, pageVars>>
           /\ started' = NoFetch
           /\ Returned("login", "invalid")
      ELSE IF data.password_hash = pass
      THEN /\ loggedInOrganizer' = organizerToCamel(data)
           /\ UNCHANGED <<loggedInCollaborator, selectedEventId, selectedRaffleId,
                          isSuperAdmin, impersonatingFromAdmin>>
           /\ UNCHANGED <<storeVars, mirrorVars, inflight, pageVars>>
           /\ effect(TRUE)
           /\ Returned("login", "ok")
      ELSE /\ UNCHANGED <<storeVars, sessionVars, mirrorVars, inflight, pageVars>>
           /\ started' = NoFetch
           /\ Returned("login", "invalid")

\* loginSuperAdmin(email, pass)
loginSuperAdmin(email, pass, answered) ==
  LET data == IF answered
              THEN Single({ r \in AdminsT : r.email = ToLowerCase(email) })
              ELSE None
  IN  IF data # None /\ data.password_hash = pass
      THEN /\ isSuperAdmin' = TRUE
           /\ UNCHANGED <<loggedInOrganizer, loggedInCollaborator, selectedEventId,
                          selectedRaffleId, impersonatingFromAdmin>>
           /\ UNCHANGED <<storeVars, mirrorVars, inflight, pageVars>>
           /\ effect(~isSuperAdmin)
           /\ Returned("loginSuperAdmin", "ok")
      ELSE /\ UNCHANGED <<storeVars, sessionVars, mirrorVars, inflight, pageVars>>
           /\ started' = NoFetch
           /\ Returned("loginSuperAdmin", "invalid")

\* logout()
\* (logout_all: a logout that ends the admin and collaborator sessions too.)
logout_all ==
  /\ loggedInOrganizer' = None
  /\ selectedEventId' = NoId
  /\ selectedRaffleId' = NoId
  /\ isSuperAdmin' = FALSE
  /\ loggedInCollaborator' = None
  /\ UNCHANGED <<impersonatingFromAdmin>>
  /\ UNCHANGED <<storeVars, mirrorVars, inflight, pageVars>>
  /\ effect(TRUE)
  /\ Returned("logout", "void")
logout ==
  /\ loggedInOrganizer' = None
  /\ selectedEventId' = NoId
  /\ selectedRaffleId' = NoId
  /\ UNCHANGED <<loggedInCollaborator, isSuperAdmin, impersonatingFromAdmin>>
  /\ UNCHANGED <<storeVars, mirrorVars, inflight, pageVars>>
  /\ effect(loggedInOrganizer # None)
  /\ Returned("logout", "void")

\* logoutSuperAdmin()
logoutSuperAdmin ==
  /\ isSuperAdmin' = FALSE
  /\ UNCHANGED <<loggedInOrganizer, loggedInCollaborator, selectedEventId,
                 selectedRaffleId, impersonatingFromAdmin>>
  /\ UNCHANGED <<storeVars, mirrorVars, inflight, pageVars>>
  /\ effect(isSuperAdmin)
  /\ Returned("logoutSuperAdmin", "void")

\* logoutCollaborator()
logoutCollaborator ==
  /\ loggedInCollaborator' = None
  /\ UNCHANGED <<loggedInOrganizer, selectedEventId, selectedRaffleId,
                 isSuperAdmin, impersonatingFromAdmin>>
  /\ UNCHANGED <<storeVars, mirrorVars, inflight, pageVars>>
  /\ effect(loggedInCollaborator # None)
  /\ Returned("logoutCollaborator", "void")

\* viewAsOrganizer(organizerId, eventId)
viewAsOrganizer(organizerId, eventId, answered) ==
  LET data == IF answered
              THEN Single({ r \in Rows(organizersT) : r.id = organizerId })
              ELSE None
  IN  IF data # None
      THEN /\ impersonatingFromAdmin' = TRUE
           /\ loggedInOrganizer' = organizerToCamel(data)
           /\ selectedEventId' = eventId
           /\ UNCHANGED <<loggedInCollaborator, selectedRaffleId, isSuperAdmin>>
           /\ UNCHANGED <<storeVars, mirrorVars, inflight, pageVars>>
           /\ effect(TRUE)
           /\ Returned("viewAsOrganizer", "void")
      ELSE /\ UNCHANGED <<storeVars, sessionVars, mirrorVars, inflight, pageVars>>
           /\ started' = NoFetch
           /\ Returned("viewAsOrganizer", "void")

\* stopImpersonating(): clears the flag, then logout().
\* (stopImpersonating_flagOnly: the same without the call of logout.)
stopImpersonating_flagOnly ==
  /\ impersonatingFromAdmin' = FALSE
  /\ UNCHANGED <<loggedInOrganizer, selectedEventId, selectedRaffleId,
                 loggedInCollaborator, isSuperAdmin>>
  /\ UNCHANGED <<storeVars, mirrorVars, inflight, pageVars>>
  /\ effect(impersonatingFromAdmin)
  /\ Returned("stopImpersonating", "void")
stopImpersonating ==
  /\ impersonatingFromAdmin' = FALSE
  /\ loggedInOrganizer' = None
  /\ selectedEventId' = NoId
  /\ selectedRaffleId' = NoId
  /\ UNCHANGED <<loggedInCollaborator, isSuperAdmin>>
  /\ UNCHANGED <<storeVars, mirrorVars, inflight, pageVars>>
  /\ effect(impersonatingFromAdmin \/ loggedInOrganizer # None)
  /\ Returned("stopImpersonating", "void")

\* validateCollaborator(companyCode, personalCode); answered, collabAnswered: the store
\* answered the company lookup, the collaborator lookup.
\* (validateCollaborator_anyCompany: the same with the collaborator looked up by its
\* personal code alone.)
validateCollaborator_anyCompany(companyCode, personalCode, answered, collabAnswered) ==
  LET company == IF answered
                 THEN Single({ c \in companiesT : c.code = ToUpperCase(companyCode) })
                 ELSE None
      collaborator == IF company = None \/ ~collabAnswered THEN None
                      ELSE Single({ c \in collaboratorsT :
                                      c.code = ToUpperCase(personalCode) })
  IN  IF company = None
      THEN /\ UNCHANGED <<storeVars, sessionVars, mirrorVars, inflight, pageVars>>
           /\ started' = NoFetch
           /\ Returned("validateCollaborator", "company-code")
      ELSE IF collaborator = None
      THEN /\ UNCHANGED <<storeVars, sessionVars, mirrorVars, inflight, pageVars>>
           /\ started' = NoFetch
           /\ Returned("validateCollaborator", "personal-code")
      ELSE /\ loggedInCollaborator' = collaboratorToCamel(collaborator)
           /\ UNCHANGED <<loggedInOrganizer, selectedEventId, selectedRaffleId,
                          isSuperAdmin, impersonatingFromAdmin>>
           /\ UNCHANGED <<storeVars, mirrorVars, inflight, pageVars>>
           /\ effect(TRUE)
           /\ Returned("validateCollaborator", "ok")
validateCollaborator(companyCode, personalCode, answered, collabAnswered) ==
  LET company == IF answered
                 THEN Single({ c \in companiesT : c.code = ToUpperCase(companyCode) })
                 ELSE None
      collaborator == IF company = None \/ ~collabAnswered THEN None
                      ELSE Single({ c \in collaboratorsT :
                                      /\ c.company_id = company.id
                                      /\ c.code = ToUpperCase(personalCode) })
  IN  IF company = None
      THEN /\ UNCHANGED <<storeVars, sessionVars, mirrorVars, inflight, pageVars>>
           /\ started' = NoFetch
           /\ Returned("validateCollaborator", "company-code")
      ELSE IF collaborator = None
      THEN /\ UNCHANGED <<storeVars, sessionVars, mirrorVars, inflight, pageVars>>
           /\ started' = NoFetch
           /\ Returned("validateCollaborator", "personal-code")
      ELSE /\ loggedInCollaborator' = collaboratorToCamel(collaborator)
           /\ UNCHANGED <<loggedInOrganizer, selectedEventId, selectedRaffleId,
                          isSuperAdmin, impersonatingFromAdmin>>
           /\ UNCHANGED <<storeVars, mirrorVars, inflight, pageVars>>
           /\ effect(TRUE)
           /\ Returned("validateCollaborator", "ok")

\* The selection setters the context exposes.
setSelectedEventId(id) ==
  /\ selectedEventId' = id
  /\ UNCHANGED <<loggedInOrganizer, loggedInCollaborator, selectedRaffleId,
                 isSuperAdmin, impersonatingFromAdmin>>
  /\ UNCHANGED <<storeVars, mirrorVars, inflight, pageVars>>
  /\ started' = NoFetch
  /\ Returned("setSelectedEventId", "void")
setSelectedRaffleId(id) ==
  /\ selectedRaffleId' = id
  /\ UNCHANGED <<loggedInOrganizer, loggedInCollaborator, selectedEventId,
                 isSuperAdmin, impersonatingFromAdmin>>
  /\ UNCHANGED <<storeVars, mirrorVars, inflight, pageVars>>
  /\ started' = NoFetch
  /\ Returned("setSelectedRaffleId", "void")

\* ------------------------------------------------------------ admin mutations
\* uploadImage(file): the public URL, or null when the upload failed.
uploadImage(file, uploadOk) == IF uploadOk THEN PublicUrl ELSE NullUrl

\* saveOrganizer(organizerData, id): id = NoId inserts, otherwise updates the row id.
\* organizerData: [email, password, photoUrl, organizerCode].
\* uploadOk, writeOk: the object storage took the file, the store took the write.
saveOrganizer(organizerData, id, uploadOk, writeOk) ==
  LET newUrl == uploadImage(organizerData.photoUrl, uploadOk)
      uploadFailed == organizerData.photoUrl = File /\ newUrl = NullUrl
      photoUrl == IF organizerData.photoUrl = File THEN newUrl
                  ELSE IF id = NoId /\ organizerData.photoUrl = NoPhoto THEN DEFAULT_IMAGE_URL
                  ELSE organizerData.photoUrl
      password_hash == IF organizerData.password # Empty
                       THEN organizerData.password ELSE NullStr
      inserted == [id |-> Len(organizersT) + 1,
                   email |-> organizerData.email,
                   password_hash |-> password_hash,
                   photo_url |-> photoUrl,
                   organizer_code |-> organizerData.organizerCode]
      updated(row) == [id |-> row.id,
                       email |-> organizerData.email,
                       password_hash |-> IF password_hash = NullStr
                                         THEN row.password_hash ELSE password_hash,
                       photo_url |-> IF photoUrl = NoPhoto THEN row.photo_url ELSE photoUrl,
                       organizer_code |-> organizerData.organizerCode]
  IN  /\ id = NoId => Len(organizersT) < MaxOrganizers
      /\ UNCHANGED <<eventsT, rafflesT, participantsT, companyVars, sessionVars, mirrorVars,
                      inflight, pageVars>>
      /\ IF uploadFailed
         THEN /\ UNCHANGED organizersT
              /\ started' = NoFetch
              /\ Returned("saveOrganizer", "upload-failed")
         ELSE IF ~writeOk
         THEN /\ UNCHANGED organizersT
              /\ started' = NoFetch
              /\ Returned("saveOrganizer", "error")
         ELSE /\ organizersT' = IF id = NoId
                                THEN Append(organizersT, inserted)
                                ELSE [i \in 1..Len(organizersT) |->
                                        IF organizersT[i].id = id
                                        THEN updated(organizersT[i]) ELSE organizersT[i]]
              /\ started' = [kind |-> "admin", arg |-> NoId]
              /\ Returned("saveOrganizer", "ok")

\* ------------------------------------------------------------ Spec
\* The store and the session after construction with nothing persisted.
Init ==
  /\ organizersT = << >>
  /\ eventsT = << >>
  /\ rafflesT = << >>
  /\ participantsT = << >>
  /\ companiesT = CompaniesT
  /\ collaboratorsT = CollaboratorsT
  /\ prizesT = {}
  /\ loggedInOrganizer = None
  /\ loggedInCollaborator = None
  /\ selectedEventId = NoId
  /\ selectedRaffleId = NoId
  /\ isSuperAdmin = FALSE
  /\ impersonatingFromAdmin = FALSE
  /\ organizers = {}
  /\ events = {}
  /\ raffles = {}
  /\ participants = {}
  /\ companies = {}
  /\ collaborators = {}
  /\ prizes = {}
  /\ pending = {}
  /\ answers = {}
  /\ noWheel
  /\ doc = NoDoc
  /\ inflight = {}
  /\ started = NoFetch
  /\ last = [op |-> "init", res |-> "void", val |-> NoId]

\* What the organizer form is given here: "a" or "A", password "p", no photo.
FormEmails == { <<97>>, <<65>> }
OrganizerForms ==
  [email : FormEmails, password : { <<112>> }, photoUrl : {NoPhoto},
   organizerCode : {OrganizerCode}]

Next ==
  \/ \E e \in Emails, p \in Passwords, a \in BOOLEAN : login(e, p, a)
  \/ \E e \in AdminEmails, p \in AdminPasswords, a \in BOOLEAN : loginSuperAdmin(e, p, a)
  \/ logout
  \/ logoutSuperAdmin
  \/ logoutCollaborator
  \/ \E o \in 1..MaxOrganizers, ev \in EventIds, a \in BOOLEAN : viewAsOrganizer(o, ev, a)
  \/ stopImpersonating
  \/ \E c \in CompanyCodes, k \in PersonalCodes, a \in BOOLEAN, b \in BOOLEAN :
       validateCollaborator(c, k, a, b)
  \/ \E ev \in EventIds \cup {NoId} : setSelectedEventId(ev)
  \/ \E r \in {1, NoId} : setSelectedRaffleId(r)
  \/ \E d \in OrganizerForms, id \in 0..MaxOrganizers, w \in BOOLEAN :
       saveOrganizer(d, id, TRUE, w)

Spec == Init /\ [][Next]_vars

\* ------------------------------------------------------------ session properties
\* A row of the organizers table that login(email, pass) would be answered with.
LoginRow(email, pass) ==
  { r \in Rows(organizersT) :
      /\ r.email = ToLowerCase(email)
      /\ \A q \in Rows(organizersT) : q.email = r.email => q = r
      /\ r.password_hash = pass }
AdminRow(email, pass) ==
  { r \in AdminsT : r.email = ToLowerCase(email) /\ r.password_hash = pass }

\* C4: whatever the stored impersonation flag, super-admin flag and organizer are, the
\* organizer the context exposes is the stored one when impersonating, otherwise none
\* when the super-admin flag is set, otherwise the stored one (possibly none).
C4_EffectiveOrganizer ==
  /\ impersonatingFromAdmin => ctxLoggedInOrganizer = loggedInOrganizer
  /\ (~impersonatingFromAdmin /\ isSuperAdmin) => ctxLoggedInOrganizer = None
  /\ (~impersonatingFromAdmin /\ ~isSuperAdmin) => ctxLoggedInOrganizer = loggedInOrganizer
\* Impersonation, the super-admin flag and an organizer are stored together, and the
\* organizer is exposed.
C4_Witness ==
  /\ impersonatingFromAdmin /\ isSuperAdmin /\ loggedInOrganizer # None
  /\ ctxLoggedInOrganizer = loggedInOrganizer

\* C5: the context never exposes two of: the super-admin flag, an effective
\* organizer, a collaborator.
C5_OneSession ==
  Cardinality({ k \in {"admin", "organizer", "collaborator"} :
                  \/ k = "admin" /\ isSuperAdmin
                  \/ k = "organizer" /\ ctxLoggedInOrganizer # None
                  \/ k = "collaborator" /\ loggedInCollaborator # None }) <= 1

\* C6: a login or loginSuperAdmin step changes the session only when the lookup is
\* answered with a row whose stored credential equals the password given: then login
\* stores that organizer and nothing else, loginSuperAdmin sets the flag and nothing
\* else; otherwise the step returns the invalid-credentials failure and leaves every
\* session value as it was.
C6_LoginFailsClosed ==
  [][ /\ last'.op = "login" => \A e \in Emails, p \in Passwords, a \in BOOLEAN :
           login(e, p, a) =>
             IF a /\ LoginRow(e, p) # {}
             THEN /\ last'.res = "ok"
                  /\ \E r \in LoginRow(e, p) : loggedInOrganizer' = organizerToCamel(r)
                  /\ UNCHANGED <<loggedInCollaborator, selectedEventId, selectedRaffleId,
                                 isSuperAdmin, impersonatingFromAdmin>>
             ELSE last'.res = "invalid" /\ UNCHANGED sessionVars
      /\ last'.op = "loginSuperAdmin" =>
         \A e \in AdminEmails, p \in AdminPasswords, a \in BOOLEAN :
           loginSuperAdmin(e, p, a) =>
             IF a /\ AdminRow(e, p) # {}
             THEN /\ last'.res = "ok"
                  /\ isSuperAdmin'
                  /\ UNCHANGED <<loggedInOrganizer, loggedInCollaborator, selectedEventId,
                                 selectedRaffleId, impersonatingFromAdmin>>
             ELSE last'.res = "invalid" /\ UNCHANGED sessionVars
    ]_vars
\* A login succeeded and stored the organizer.
C6_Witness ==
  last.op = "login" /\ last.res = "ok" /\ loggedInOrganizer # None

\* C7: login(E', P) succeeds whenever the organizers table holds a row, created by
\* saveOrganizer, with password P and an e-mail that differs from E' only in letter case.
C7_LoginAnyCase ==
  [][ last'.op = "login" => \A e \in Emails, p \in Passwords :
        ( /\ login(e, p, TRUE)
          /\ \E r \in Rows(organizersT) :
               ToLowerCase(r.email) = ToLowerCase(e) /\ r.password_hash = p )
        => last'.res = "ok"
    ]_vars

\* C8: a logout step sets the stored organizer and both selections to null and leaves
\* the super-admin flag, the collaborator and the impersonation flag as they were; a
\* logoutSuperAdmin step changes the super-admin flag only; a logoutCollaborator step
\* changes the collaborator only.
C8_LogoutFrames ==
  [][ /\ last'.op = "logout" =>
           /\ loggedInOrganizer' = None
           /\ selectedEventId' = NoId
           /\ selectedRaffleId' = NoId
           /\ UNCHANGED <<isSuperAdmin, loggedInCollaborator, impersonatingFromAdmin>>
      /\ last'.op = "logoutSuperAdmin" =>
           /\ isSuperAdmin' = FALSE
           /\ UNCHANGED <<loggedInOrganizer, loggedInCollaborator, selectedEventId,
                          selectedRaffleId, impersonatingFromAdmin>>
      /\ last'.op = "logoutCollaborator" =>
           /\ loggedInCollaborator' = None
           /\ UNCHANGED <<loggedInOrganizer, selectedEventId, selectedRaffleId,
                          isSuperAdmin, impersonatingFromAdmin>>
    ]_vars
\* A logout has run and the admin session, the collaborator and the impersonation
\* flag are still there.
C8_Witness ==
  /\ last.op = "logout"
  /\ loggedInOrganizer = None /\ selectedEventId = NoId /\ selectedRaffleId = NoId
  /\ isSuperAdmin /\ loggedInCollaborator # None /\ impersonatingFromAdmin

\* C9: a viewAsOrganizer step with the super-admin flag set and the organizer found
\* sets impersonation, stores that organizer and selects the event given; with the flag
\* not set, or the organizer not found, it leaves impersonation, the stored organizer
\* and the selected event as they were.
C9_ViewAsAdminOnly ==
  [][ last'.op = "viewAsOrganizer" =>
      \A o \in 1..MaxOrganizers, ev \in EventIds, a \in BOOLEAN :
        viewAsOrganizer(o, ev, a) =>
          LET found == { r \in Rows(organizersT) : a /\ r.id = o }
          IN  IF isSuperAdmin /\ found # {}
              THEN /\ impersonatingFromAdmin'
                   /\ \E r \in found : loggedInOrganizer' = organizerToCamel(r)
                   /\ selectedEventId' = ev
              ELSE UNCHANGED <<impersonatingFromAdmin, loggedInOrganizer, selectedEventId>>
    ]_vars

\* C10: a stopImpersonating step leaves impersonation false, no stored organizer, no
\* selection, and the super-admin flag as it was; when it comes right after a
\* viewAsOrganizer that took effect in an admin session, the super-admin is what the
\* context exposes (no organizer) and the fetch the step starts is the admin-scope one.
C10_StopImpersonating ==
  [][ last'.op = "stopImpersonating" =>
        /\ impersonatingFromAdmin' = FALSE
        /\ loggedInOrganizer' = None
        /\ selectedEventId' = NoId
        /\ selectedRaffleId' = NoId
        /\ UNCHANGED isSuperAdmin
        /\ (last.op = "viewAsOrganizer" /\ isSuperAdmin /\ impersonatingFromAdmin) =>
             /\ isSuperAdmin'
             /\ ctxLoggedInOrganizer' = None
             /\ started' = [kind |-> "admin", arg |-> NoId]
    ]_vars
\* stopImpersonating has run in an admin session and started the admin-scope fetch.
C10_Witness ==
  /\ last.op = "stopImpersonating"
  /\ isSuperAdmin /\ ~impersonatingFromAdmin /\ loggedInOrganizer = None
  /\ started = [kind |-> "admin", arg |-> NoId]

\* C11: a validateCollaborator step returns the company-code failure when no company
\* has the upper-cased company code, and the personal-code failure when the company
\* lookup is answered with the company and that company has no collaborator with the
\* upper-cased personal code; a step that fails leaves the collaborator session as it
\* was; a step that succeeds stores a collaborator of the company that has the
\* upper-cased company code, whose code is the upper-cased personal code.
C11_ValidateCollaborator ==
  [][ last'.op = "validateCollaborator" =>
      \A c \in CompanyCodes, k \in PersonalCodes, a \in BOOLEAN, b \in BOOLEAN :
        validateCollaborator(c, k, a, b) =>
          LET found == { x \in companiesT : x.code = ToUpperCase(c) }
              theirs == { y \in collaboratorsT :
                            /\ \E x \in found : y.company_id = x.id
                            /\ y.code = ToUpperCase(k) }
          IN  /\ found = {} => last'.res = "company-code"
              /\ (a /\ Cardinality(found) = 1 /\ theirs = {}) => last'.res = "personal-code"
              /\ last'.res \in {"company-code", "personal-code", "ok"}
              /\ last'.res # "ok" => UNCHANGED loggedInCollaborator
              /\ last'.res = "ok" =>
                    \E y \in theirs : loggedInCollaborator' = collaboratorToCamel(y)
    ]_vars
\* A check-in succeeded and stored a collaborator of the company that has code "C".
C11_Witness ==
  /\ last.op = "validateCollaborator" /\ last.res = "ok"
  /\ loggedInCollaborator # None
  /\ \E x \in companiesT : x.code = <<67>> /\ loggedInCollaborator.companyId = x.id

\* C25: whenever the impersonation flag is set, an organizer is stored and the
\* super-admin flag is set; and a login step that succeeds leaves the flag unset.
C25_ImpersonationFlag ==
  /\ [](impersonatingFromAdmin => (loggedInOrganizer # None /\ isSuperAdmin))
  /\ [][ (last'.op = "login" /\ last'.res = "ok") => ~impersonatingFromAdmin' ]_vars

\* ------------------------------------------------------------ registration and draw
\* count: null, when a count query was not answered.
NullCount == -1
\* Which of addParticipant's store requests are answered: the raffle lookup, the
\* duplicate-email query, the winner count, the insert.
\* Every request is answered, or one of them is not.
AllAnswered == [raffle |-> TRUE, dup |-> TRUE, count |-> TRUE, write |-> TRUE]
Answers ==
  { AllAnswered } \cup { [AllAnswered EXCEPT ![k] = FALSE] : k \in DOMAIN AllAnswered }

\* from('raffles').select('quantity, name').eq('id', raffleId).single()
raffleById(raffleId, answered) ==
  IF answered THEN Single({ r \in Rows(rafflesT) : r.id = raffleId }) ELSE None
\* from('participants').select('id').eq('email', ...).eq('raffle_id', ...).maybeSingle()
existingParticipant(email, raffleId, answered) ==
  IF answered
  THEN MaybeSingle({ p \in Rows(participantsT) : p.email = email /\ p.raffle_id = raffleId })
  ELSE None
\* from('participants').select('*', {count}).eq('raffle_id', ...).eq('is_winner', true)
winnerCount(raffleId, answered) ==
  IF answered
  THEN Cardinality({ p \in Rows(participantsT) : p.raffle_id = raffleId /\ p.is_winner })
  ELSE NullCount
\* The row the store makes of an inserted participant.
participantRow(snake) ==
  [id |-> Len(participantsT) + 1, raffle_id |-> snake.raffle_id, email |-> snake.email,
   is_winner |-> snake.is_winner, drawn_at |-> NullTime]

\* What addParticipant does once its guards have let the registration through.
addParticipantInsert(participantData, ans) ==
  IF ~ans.write
  THEN /\ UNCHANGED <<storeVars, sessionVars, mirrorVars, inflight, pageVars>>
       /\ started' = NoFetch
       /\ Returned("addParticipant", "insert-error")
  ELSE /\ Len(participantsT) < MaxParticipants
       /\ participantsT' =
            Append(participantsT,
                   participantRow(participantToSnake(
                     [raffleId |-> participantData.raffleId,
                      email |-> participantData.email, isWinner |-> FALSE])))
       /\ UNCHANGED <<organizersT, eventsT, rafflesT, companyVars, sessionVars, mirrorVars,
                      pageVars>>
       /\ IF loggedInOrganizer # None
          THEN /\ started' = [kind |-> "organizer", arg |-> loggedInOrganizer.id]
               /\ inflight' = inflight \cup {started'}
          ELSE /\ started' = NoFetch
               /\ UNCHANGED inflight
       /\ Returned("addParticipant", "ok")

\* addParticipant(participantData); participantData: [raffleId, email].
\* (addParticipant_gt: the same with the ceiling reached only above the quantity.)
addParticipant_gt(participantData, ans) ==
  LET raffle == raffleById(participantData.raffleId, ans.raffle)
      existing == existingParticipant(ToLowerCase(participantData.email),
                                      participantData.raffleId, ans.dup)
      count == winnerCount(participantData.raffleId, ans.count)
  IN  IF raffle = None
      THEN /\ UNCHANGED <<storeVars, sessionVars, mirrorVars, inflight, pageVars>>
           /\ started' = NoFetch
           /\ Returned("addParticipant", "not-found")
      ELSE IF existing # None
      THEN /\ UNCHANGED <<storeVars, sessionVars, mirrorVars, inflight, pageVars>>
           /\ started' = NoFetch
           /\ Returned("addParticipant", "duplicate")
      ELSE IF count # NullCount /\ count > raffle.quantity
      THEN /\ UNCHANGED <<storeVars, sessionVars, mirrorVars, inflight, pageVars>>
           /\ started' = NoFetch
           /\ Returned("addParticipant", "ceiling")
      ELSE addParticipantInsert(participantData, ans)
addParticipant(participantData, ans) ==
  LET raffle == raffleById(participantData.raffleId, ans.raffle)
      existing == existingParticipant(ToLowerCase(participantData.email),
                                      participantData.raffleId, ans.dup)
      count == winnerCount(participantData.raffleId, ans.count)
  IN  IF raffle = None
      THEN /\ UNCHANGED <<storeVars, sessionVars, mirrorVars, inflight, pageVars>>
           /\ started' = NoFetch
           /\ Returned("addParticipant", "not-found")
      ELSE IF existing # None
      THEN /\ UNCHANGED <<storeVars, sessionVars, mirrorVars, inflight, pageVars>>
           /\ started' = NoFetch
           /\ Returned("addParticipant", "duplicate")
      ELSE IF count # NullCount /\ count >= raffle.quantity
      THEN /\ UNCHANGED <<storeVars, sessionVars, mirrorVars, inflight, pageVars>>
           /\ started' = NoFetch
           /\ Returned("addParticipant", "ceiling")
      ELSE addParticipantInsert(participantData, ans)

\* The rows drawWinner's eligible query returns for a raffle.
eligibleRows(raffleId) ==
  { p \in Rows(participantsT) : p.raffle_id = raffleId /\ ~p.is_winner }

\* drawWinner(); answered, updated: the store answered the eligible query, took the
\* update.  The row drawn is any of the eligible ones (Math.random).
\* (drawWinner_anyRow: the same with the eligible query not filtered by is_winner.)
drawWinner_anyRow(answered, updated) ==
  LET eligible == IF selectedRaffle # None /\ answered
                  THEN { p \in Rows(participantsT) : p.raffle_id = selectedRaffle.id }
                  ELSE {}
  IN  IF selectedRaffle = None \/ eligible = {}
      THEN /\ UNCHANGED <<storeVars, sessionVars, mirrorVars, inflight, pageVars>>
           /\ started' = NoFetch
           /\ Returned("drawWinner", "null")
      ELSE \E winnerData \in eligible :
             IF ~updated
             THEN /\ UNCHANGED <<storeVars, sessionVars, mirrorVars, inflight, pageVars>>
                  /\ started' = NoFetch
                  /\ Returned("drawWinner", "null")
             ELSE /\ participantsT' =
                       [i \in 1..Len(participantsT) |->
                          IF participantsT[i].id = winnerData.id
                          THEN [participantsT[i] EXCEPT !.is_winner = TRUE, !.drawn_at = Now]
                          ELSE participantsT[i]]
                  /\ UNCHANGED <<organizersT, eventsT, rafflesT, companyVars, sessionVars, mirrorVars,
                      pageVars>>
                  /\ LET org == IF loggedInOrganizer # None
                                THEN {[kind |-> "organizer", arg |-> loggedInOrganizer.id]}
                                ELSE {}
                         col == IF loggedInCollaborator # None
                                THEN {[kind |-> "collaborator",
                                       arg |-> loggedInCollaborator.companyId]}
                                ELSE {}
                     IN  /\ inflight' = inflight \cup org \cup col
                         /\ started' = IF col # {} THEN CHOOSE f \in col : TRUE
                                       ELSE IF org # {} THEN CHOOSE f \in org : TRUE
                                       ELSE NoFetch
                  /\ last' = [op |-> "drawWinner", res |-> "winner", val |-> winnerData.id]
drawWinner(answered, updated) ==
  LET eligible == IF selectedRaffle # None /\ answered
                  THEN eligibleRows(selectedRaffle.id) ELSE {}
  IN  IF selectedRaffle = None \/ eligible = {}
      THEN /\ UNCHANGED <<storeVars, sessionVars, mirrorVars, inflight, pageVars>>
           /\ started' = NoFetch
           /\ Returned("drawWinner", "null")
      ELSE \E winnerData \in eligible :
             IF ~updated
             THEN /\ UNCHANGED <<storeVars, sessionVars, mirrorVars, inflight, pageVars>>
                  /\ started' = NoFetch
                  /\ Returned("drawWinner", "null")
             ELSE /\ participantsT' =
                       [i \in 1..Len(participantsT) |->
                          IF participantsT[i].id = winnerData.id
                          THEN [participantsT[i] EXCEPT !.is_winner = TRUE, !.drawn_at = Now]
                          ELSE participantsT[i]]
                  /\ UNCHANGED <<organizersT, eventsT, rafflesT, companyVars, sessionVars, mirrorVars,
                      pageVars>>
                  /\ LET org == IF loggedInOrganizer # None
                                THEN {[kind |-> "organizer", arg |-> loggedInOrganizer.id]}
                                ELSE {}
                         col == IF loggedInCollaborator # None
                                THEN {[kind |-> "collaborator",
                                       arg |-> loggedInCollaborator.companyId]}
                                ELSE {}
                     IN  /\ inflight' = inflight \cup org \cup col
                         /\ started' = IF col # {} THEN CHOOSE f \in col : TRUE
                                       ELSE IF org # {} THEN CHOOSE f \in org : TRUE
                                       ELSE NoFetch
                  /\ last' = [op |-> "drawWinner", res |-> "winner", val |-> winnerData.id]

\* ------------------------------------------------------------ scoped fetches
\* Which of a scoped fetch's store requests are answered, by the table asked.
\* Every request is answered, or one of them is not.
AllFetched ==
  [organizers |-> TRUE, events |-> TRUE, raffles |-> TRUE, participants |-> TRUE,
   companies |-> TRUE, collaborators |-> TRUE, prizes |-> TRUE]
FetchAnswers ==
  { AllFetched } \cup { [AllFetched EXCEPT ![k] = FALSE] : k \in DOMAIN AllFetched }

\* A scoped fetch is answered: it leaves the fetches in flight and its setters run.
fetchAnswered(f, op) ==
  /\ f \in inflight
  /\ inflight' = inflight \ {f}
  /\ started' = NoFetch
  /\ UNCHANGED <<storeVars, pageVars>>
  /\ Returned(op, "void")

\* fetchAdminData() answered.
fetchAdminData(ans) ==
  /\ fetchAnswered([kind |-> "admin", arg |-> NoId], "fetchAdminData")
  /\ UNCHANGED sessionVars
  /\ organizers' = IF ans.organizers
                   THEN { organizerToCamel(o) : o \in Rows(organizersT) } ELSE organizers
  /\ events' = IF ans.events THEN { eventToCamel(e) : e \in Rows(eventsT) } ELSE events
  /\ UNCHANGED <<raffles, participants, companies, collaborators, prizes>>

\* fetchOrganizerData(organizerId) answered.
fetchOrganizerData(organizerId, ans) ==
  LET eventData == { e \in Rows(eventsT) : e.organizer_id = organizerId }
      eventIds == { e.id : e \in eventData }
      raffleData == { r \in Rows(rafflesT) : r.event_id \in eventIds }
      raffleIds == { r.id : r \in raffleData }
      companyData == { c \in companiesT : c.event_id \in eventIds }
      companyIds == { c.id : c \in companyData }
      participantData == { p \in Rows(participantsT) : p.raffle_id \in raffleIds }
      collaboratorData == { c \in collaboratorsT : c.company_id \in companyIds }
      prizeData == { z \in prizesT : z.company_id \in companyIds }
  IN  /\ fetchAnswered([kind |-> "organizer", arg |-> organizerId], "fetchOrganizerData")
      /\ UNCHANGED sessionVars
      /\ IF ~ans.events
         THEN UNCHANGED mirrorVars
         ELSE /\ events' = { eventToCamel(e) : e \in eventData }
              /\ UNCHANGED organizers
              /\ raffles' = IF eventIds = {} THEN {}
                            ELSE IF ans.raffles THEN { raffleToCamel(r) : r \in raffleData }
                            ELSE raffles
              /\ participants' =
                   IF eventIds = {} THEN {}
                   ELSE IF ~ans.raffles THEN participants
                   ELSE IF raffleIds = {} THEN {}
                   ELSE IF ans.participants
                   THEN { participantToCamel(x) : x \in participantData }
                   ELSE participants
              /\ companies' = IF eventIds = {} THEN {}
                              ELSE IF ans.companies
                              THEN { companyToCamel(c) : c \in companyData }
                              ELSE companies
              /\ collaborators' =
                   IF eventIds = {} THEN {}
                   ELSE IF ~ans.companies THEN collaborators
                   ELSE IF companyIds = {} THEN {}
                   ELSE IF ans.collaborators
                   THEN { collaboratorToCamel(c) : c \in collaboratorData }
                   ELSE collaborators
              /\ prizes' = IF eventIds = {} THEN {}
                           ELSE IF ~ans.companies THEN prizes
                           ELSE IF companyIds = {} THEN {}
                           ELSE IF ans.prizes THEN { prizeToCamel(z) : z \in prizeData }
                           ELSE prizes

\* fetchCollaboratorData(companyId) answered; the company comes with its event (events(*)).
fetchCollaboratorData(companyId, ans) ==
  LET companyData == IF ans.companies
                     THEN Single({ c \in companiesT : c.id = companyId }) ELSE None
      event == IF companyData = None THEN None
               ELSE Single({ e \in Rows(eventsT) : e.id = companyData.event_id })
      raffleData == { r \in Rows(rafflesT) : event # None /\ r.event_id = event.id }
      raffleIds == { r.id : r \in raffleData }
      participantData == { p \in Rows(participantsT) : p.raffle_id \in raffleIds }
      prizeData == { z \in prizesT : companyData # None /\ z.company_id = companyData.id }
  IN  /\ fetchAnswered([kind |-> "collaborator", arg |-> companyId], "fetchCollaboratorData")
      /\ UNCHANGED <<loggedInOrganizer, loggedInCollaborator, selectedRaffleId,
                     isSuperAdmin, impersonatingFromAdmin>>
      /\ UNCHANGED <<organizers, collaborators>>
      /\ IF companyData = None
         THEN UNCHANGED <<selectedEventId, events, raffles, participants, companies, prizes>>
         ELSE /\ companies' = { companyToCamel(companyData) }
              /\ IF event = None
                 THEN UNCHANGED <<selectedEventId, events, raffles, participants, prizes>>
                 ELSE /\ events' = { eventToCamel(event) }
                      /\ selectedEventId' = event.id
                      /\ raffles' = IF ans.raffles
                                    THEN { raffleToCamel(r) : r \in raffleData } ELSE raffles
                      /\ participants' =
                           IF ans.raffles /\ raffleIds # {} /\ ans.participants
                           THEN { participantToCamel(x) : x \in participantData }
                           ELSE participants
                      /\ prizes' = IF ans.prizes THEN { prizeToCamel(z) : z \in prizeData }
                                   ELSE prizes

\* ------------------------------------------------------------ company, collaborator and prize mutations
\* The id the store gives an inserted row of a table kept as a set.
NextId(table) ==
  CHOOSE n \in 1..(Cardinality(table) + 1) : \A r \in table : r.id # n
\* if(loggedInOrganizer) fetchOrganizerData(loggedInOrganizer.id)
refetchOrganizer ==
  IF loggedInOrganizer # None
  THEN /\ started' = [kind |-> "organizer", arg |-> loggedInOrganizer.id]
       /\ inflight' = inflight \cup {started'}
  ELSE /\ started' = NoFetch
       /\ UNCHANGED inflight
\* if(loggedInCollaborator) fetchCollaboratorData(loggedInCollaborator.companyId)
refetchCollaborator ==
  IF loggedInCollaborator # None
  THEN /\ started' = [kind |-> "collaborator", arg |-> loggedInCollaborator.companyId]
       /\ inflight' = inflight \cup {started'}
  ELSE /\ started' = NoFetch
       /\ UNCHANGED inflight
\* The image a company or collaborator mutation writes for the image field it is given:
\* a raw file is uploaded, and whatever is empty after that becomes the default image.
imageToSave(image, uploadOk) ==
  LET given == IF image = File THEN uploadImage(image, uploadOk) ELSE image
  IN  IF given = NullUrl \/ given = NoPhoto THEN DEFAULT_IMAGE_URL ELSE given

\* saveCompany(companyData, id); companyData: [code, logoUrl]; id = NoId inserts.
saveCompany(companyData, id, uploadOk, writeOk) ==
  IF selectedEvent = None
  THEN /\ UNCHANGED <<storeVars, sessionVars, mirrorVars, inflight, pageVars>>
       /\ started' = NoFetch
       /\ Returned("saveCompany", "void")
  ELSE LET logoUrl == imageToSave(companyData.logoUrl, uploadOk)
           inserted == [id |-> NextId(companiesT), event_id |-> selectedEvent.id,
                        code |-> companyData.code, logo_url |-> logoUrl,
                        roleta_colors |-> DefaultColors]
           updated(row) == [row EXCEPT !.event_id = selectedEvent.id,
                                       !.code = companyData.code, !.logo_url = logoUrl]
       IN  /\ (id = NoId /\ writeOk) => Cardinality(companiesT) < MaxCompanies
           /\ companiesT' = IF ~writeOk THEN companiesT
                            ELSE IF id = NoId THEN companiesT \cup {inserted}
                            ELSE { IF c.id = id THEN updated(c) ELSE c : c \in companiesT }
           /\ UNCHANGED <<organizersT, eventsT, rafflesT, participantsT, collaboratorsT,
                          prizesT, sessionVars, mirrorVars, pageVars>>
           /\ refetchOrganizer
           /\ Returned("saveCompany", "void")

\* updateCompanySettings(companyId, settings); settings: the wheel's colours.
updateCompanySettings(companyId, settings, writeOk) ==
  /\ companiesT' = IF ~writeOk THEN companiesT
                   ELSE { IF c.id = companyId THEN [c EXCEPT !.roleta_colors = settings] ELSE c :
                          c \in companiesT }
  /\ UNCHANGED <<organizersT, eventsT, rafflesT, participantsT, collaboratorsT,
                 prizesT, sessionVars, mirrorVars, pageVars>>
  /\ refetchCollaborator
  /\ Returned("updateCompanySettings", "void")

\* deleteCompany(id): the store removes the row and the rows that refer to it.
deleteCompany(id, writeOk) ==
  /\ companiesT' = IF writeOk THEN { c \in companiesT : c.id # id } ELSE companiesT
  /\ collaboratorsT' = IF writeOk THEN { c \in collaboratorsT : c.company_id # id }
                       ELSE collaboratorsT
  /\ prizesT' = IF writeOk THEN { z \in prizesT : z.company_id # id } ELSE prizesT
  /\ UNCHANGED <<organizersT, eventsT, rafflesT, participantsT, sessionVars, mirrorVars,
                 pageVars>>
  /\ refetchOrganizer
  /\ Returned("deleteCompany", "void")

\* addCollaborator(companyId, collaboratorData); collaboratorData: [code, photoUrl].
addCollaborator(companyId, collaboratorData, uploadOk, writeOk) ==
  LET inserted == [id |-> NextId(collaboratorsT), company_id |-> companyId,
                   code |-> collaboratorData.code,
                   photo_url |-> imageToSave(collaboratorData.photoUrl, uploadOk)]
  IN  /\ writeOk => Cardinality(collaboratorsT) < MaxCollaborators
      /\ collaboratorsT' = IF writeOk THEN collaboratorsT \cup {inserted} ELSE collaboratorsT
      /\ UNCHANGED <<organizersT, eventsT, rafflesT, participantsT, companiesT, prizesT,
                     sessionVars, mirrorVars, pageVars>>
      /\ refetchOrganizer
      /\ Returned("addCollaborator", "void")

\* updateCollaborator(id, collaboratorData)
updateCollaborator(id, collaboratorData, uploadOk, writeOk) ==
  LET updated(row) == [row EXCEPT !.code = collaboratorData.code,
                                  !.photo_url = imageToSave(collaboratorData.photoUrl, uploadOk)]
  IN  /\ collaboratorsT' = IF ~writeOk THEN collaboratorsT
                           ELSE { IF c.id = id THEN updated(c) ELSE c : c \in collaboratorsT }
      /\ UNCHANGED <<organizersT, eventsT, rafflesT, participantsT, companiesT, prizesT,
                     sessionVars, mirrorVars, pageVars>>
      /\ refetchOrganizer
      /\ Returned("updateCollaborator", "void")

\* deleteCollaborator(id)
deleteCollaborator(id, writeOk) ==
  /\ collaboratorsT' = IF writeOk THEN { c \in collaboratorsT : c.id # id } ELSE collaboratorsT
  /\ UNCHANGED <<organizersT, eventsT, rafflesT, participantsT, companiesT, prizesT,
                 sessionVars, mirrorVars, pageVars>>
  /\ refetchOrganizer
  /\ Returned("deleteCollaborator", "void")

\* savePrize(companyId, prizeData, id); prizeData: [name]; id = NoId inserts.
savePrize(companyId, prizeData, id, writeOk) ==
  LET inserted == [id |-> NextId(prizesT), company_id |-> companyId, name |-> prizeData.name]
      updated(row) == [row EXCEPT !.company_id = companyId, !.name = prizeData.name]
  IN  /\ (id = NoId /\ writeOk) => Cardinality(prizesT) < MaxPrizes
      /\ prizesT' = IF ~writeOk THEN prizesT
                    ELSE IF id = NoId THEN prizesT \cup {inserted}
                    ELSE { IF z.id = id THEN updated(z) ELSE z : z \in prizesT }
      /\ UNCHANGED <<organizersT, eventsT, rafflesT, participantsT, companiesT,
                     collaboratorsT, sessionVars, mirrorVars, pageVars>>
      /\ refetchCollaborator
      /\ Returned("savePrize", "void")

\* deletePrize(id)
deletePrize(id, writeOk) ==
  /\ prizesT' = IF writeOk THEN { z \in prizesT : z.id # id } ELSE prizesT
  /\ UNCHANGED <<organizersT, eventsT, rafflesT, participantsT, companiesT,
                 collaboratorsT, sessionVars, mirrorVars, pageVars>>
  /\ refetchCollaborator
  /\ Returned("deletePrize", "void")

\* ------------------------------------------------------------ SpecDraw
\* An organizer "a" with one event and two raffles, of quantity 1 and 2 ("ABX", "ABY").
DrawOrganizer ==
  [id |-> 1, email |-> <<97>>, password_hash |-> <<112>>,
   photo_url |-> DEFAULT_IMAGE_URL, organizer_code |-> OrganizerCode]
DrawEvents == << [id |-> 1, organizer_id |-> 1] >>
DrawRaffles ==
  << [id |-> 1, event_id |-> 1, quantity |-> 1, code |-> <<65, 66, 88>>],
     [id |-> 2, event_id |-> 1, quantity |-> 2, code |-> <<65, 66, 89>>] >>

\* The page is loaded with that organizer's session persisted: the mirror is empty
\* and the effect has started the organizer's fetch.
InitDraw ==
  /\ organizersT = << DrawOrganizer >>
  /\ eventsT = DrawEvents
  /\ rafflesT = DrawRaffles
  /\ participantsT = << >>
  /\ companiesT = {}
  /\ collaboratorsT = {}
  /\ prizesT = {}
  /\ loggedInOrganizer = organizerToCamel(DrawOrganizer)
  /\ loggedInCollaborator = None
  /\ selectedEventId = NoId
  /\ selectedRaffleId = NoId
  /\ isSuperAdmin = FALSE
  /\ impersonatingFromAdmin = FALSE
  /\ organizers = {}
  /\ events = {}
  /\ raffles = {}
  /\ participants = {}
  /\ companies = {}
  /\ collaborators = {}
  /\ prizes = {}
  /\ pending = {}
  /\ answers = {}
  /\ noWheel
  /\ doc = NoDoc
  /\ started = scopedFetch(isSuperAdmin, impersonatingFromAdmin,
                           loggedInOrganizer, loggedInCollaborator)
  /\ inflight = {started} \ {NoFetch}
  /\ last = [op |-> "init", res |-> "void", val |-> NoId]

\* The registrations the pages make here: a raffle id and an e-mail, "A" or "b".
DrawEmails == { <<65>>, <<98>> }
Registrations == [raffleId : RaffleIds, email : DrawEmails]

NextDraw ==
  \/ \E d \in Registrations, ans \in Answers : addParticipant(d, ans)
  \/ \E a \in BOOLEAN, u \in BOOLEAN : drawWinner(a, u)
  \/ \E ans \in FetchAnswers : fetchOrganizerData(1, ans)
  \/ \E r \in RaffleIds \cup {NoId} : setSelectedRaffleId(r)

SpecDraw == InitDraw /\ [][NextDraw]_vars

\* ------------------------------------------------------------ SpecSync
\* The effect's fetch: after the render that follows a session change, the scoped fetch
\* the effect chose is called and awaits its answer.
runEffect ==
  /\ started # NoFetch
  /\ started \notin inflight
  /\ inflight' = inflight \cup {started}
  /\ UNCHANGED <<storeVars, sessionVars, mirrorVars, started, pageVars, last>>
\* The effect of the last render has run: nothing it started is left to call.
effectRan == started = NoFetch \/ started \in inflight

\* Two organizers, "a" with event 1 and "b" with event 2; event 1 has raffle "ABX" of
\* quantity 1 and company "C" with its collaborator "K".
SyncOrganizers ==
  << DrawOrganizer,
     [id |-> 2, email |-> <<98>>, password_hash |-> <<112>>,
      photo_url |-> DEFAULT_IMAGE_URL, organizer_code |-> <<67, 68>>] >>
SyncEvents == << [id |-> 1, organizer_id |-> 1], [id |-> 2, organizer_id |-> 2] >>
SyncRaffles == << DrawRaffles[1] >>
SyncCompanies == { c \in CompaniesT : c.id = 1 }
SyncCollaborators == { c \in CollaboratorsT : c.company_id = 1 }

\* The page is loaded with no session persisted.
InitSync ==
  /\ organizersT = SyncOrganizers
  /\ eventsT = SyncEvents
  /\ rafflesT = SyncRaffles
  /\ participantsT = << >>
  /\ companiesT = SyncCompanies
  /\ collaboratorsT = SyncCollaborators
  /\ prizesT = {}
  /\ loggedInOrganizer = None
  /\ loggedInCollaborator = None
  /\ selectedEventId = NoId
  /\ selectedRaffleId = NoId
  /\ isSuperAdmin = FALSE
  /\ impersonatingFromAdmin = FALSE
  /\ organizers = {}
  /\ events = {}
  /\ raffles = {}
  /\ participants = {}
  /\ companies = {}
  /\ collaborators = {}
  /\ prizes = {}
  /\ inflight = {}
  /\ started = NoFetch
  /\ pending = {}
  /\ answers = {}
  /\ noWheel
  /\ doc = NoDoc
  /\ last = [op |-> "init", res |-> "void", val |-> NoId]

\* The registration the public page makes here: "b" in raffle 1.
SyncRegistrations == [raffleId : {1}, email : { <<98>> }]

NextSync ==
  \/ runEffect
  \/ effectRan /\ \E e \in { <<97>>, <<98>> } : login(e, <<112>>, TRUE)
  \/ effectRan /\ logout
  \/ effectRan /\ validateCollaborator(<<99>>, <<107>>, TRUE, TRUE)
  \/ effectRan /\ logoutCollaborator
  \/ effectRan /\ loginSuperAdmin(<<114>>, <<115>>, TRUE)
  \/ effectRan /\ logoutSuperAdmin
  \/ effectRan /\ \E ans \in FetchAnswers : fetchAdminData(ans)
  \/ effectRan /\ \E ev \in {1, NoId} : setSelectedEventId(ev)
  \/ effectRan /\ \E o \in 1..2 : fetchOrganizerData(o, AllFetched)
  \/ effectRan /\ fetchCollaboratorData(1, AllFetched)
  \/ effectRan /\ \E d \in SyncRegistrations : addParticipant(d, AllAnswered)

SpecSync == InitSync /\ [][NextSync]_vars

\* ------------------------------------------------------------ SpecCompany
\* The page is loaded with the session of organizer "a" persisted and event 1 selected,
\* or with the session of collaborator "K" persisted: the mirror is empty and the effect
\* has started the scoped fetch.
InitCompany ==
  /\ organizersT = SyncOrganizers
  /\ eventsT = SyncEvents
  /\ rafflesT = SyncRaffles
  /\ participantsT = << >>
  /\ companiesT = SyncCompanies
  /\ collaboratorsT = SyncCollaborators
  /\ prizesT = {}
  /\ \/ /\ loggedInOrganizer = organizerToCamel(DrawOrganizer)
        /\ loggedInCollaborator = None
        /\ selectedEventId = 1
     \/ /\ loggedInOrganizer = None
        /\ \E c \in SyncCollaborators : loggedInCollaborator = collaboratorToCamel(c)
        /\ selectedEventId = NoId
  /\ selectedRaffleId = NoId
  /\ isSuperAdmin = FALSE
  /\ impersonatingFromAdmin = FALSE
  /\ organizers = {}
  /\ events = {}
  /\ raffles = {}
  /\ participants = {}
  /\ companies = {}
  /\ collaborators = {}
  /\ prizes = {}
  /\ started = scopedFetch(isSuperAdmin, impersonatingFromAdmin,
                           loggedInOrganizer, loggedInCollaborator)
  /\ inflight = {started}
  /\ pending = {}
  /\ answers = {}
  /\ noWheel
  /\ doc = NoDoc
  /\ last = [op |-> "init", res |-> "void", val |-> NoId]

\* What the forms are given here: a company "C", a collaborator "K", a prize "z", the
\* first two with a raw file for their image.
CompanyForms == [code : { <<67>> }, logoUrl : {File}]
CollaboratorForms == [code : { <<75>> }, photoUrl : {File}]
PrizeForms == [name : { <<122>> }]
\* The ids the pages take from the rows they list.
companyIds == { c.id : c \in companies }
collaboratorIds == { c.id : c \in collaborators }
prizeIds == { z.id : z \in prizes }
\* The organizer's pages are shown to an organizer, the wheel page to a collaborator
\* whose company is mirrored.
organizerPages == ctxLoggedInOrganizer # None
wheelPage == loggedInCollaboratorCompany # None

NextCompany ==
  \/ \E o \in 1..2 : fetchOrganizerData(o, AllFetched)
  \/ \E ans \in FetchAnswers : fetchCollaboratorData(1, ans)
  \/ organizerPages /\ \E d \in CompanyForms, id \in companyIds \cup {NoId}, u \in BOOLEAN, w \in BOOLEAN :
       saveCompany(d, id, u, w)
  \/ organizerPages /\ \E id \in companyIds, w \in BOOLEAN : deleteCompany(id, w)
  \/ organizerPages /\ \E c \in companyIds, d \in CollaboratorForms, u \in BOOLEAN, w \in BOOLEAN :
       addCollaborator(c, d, u, w)
  \/ organizerPages /\ \E id \in collaboratorIds, d \in CollaboratorForms, u \in BOOLEAN, w \in BOOLEAN :
       updateCollaborator(id, d, u, w)
  \/ organizerPages /\ \E id \in collaboratorIds, w \in BOOLEAN : deleteCollaborator(id, w)
  \/ wheelPage /\ \E w \in BOOLEAN :
       updateCompanySettings(loggedInCollaboratorCompany.id, Colors, w)
  \/ wheelPage /\ \E d \in PrizeForms, id \in prizeIds \cup {NoId}, w \in BOOLEAN :
       savePrize(loggedInCollaboratorCompany.id, d, id, w)
  \/ wheelPage /\ \E id \in prizeIds, w \in BOOLEAN : deletePrize(id, w)
  \/ \E d \in SyncRegistrations, w \in BOOLEAN :
       addParticipant(d, [AllAnswered EXCEPT !.write = w])

SpecCompany == InitCompany /\ [][NextCompany]_vars

\* ------------------------------------------------------------ raffle creation and lookup
\* from('raffles').select('id').eq('code', fullRaffleCode).maybeSingle()
existingRaffle(fullRaffleCode, answered) ==
  IF answered THEN MaybeSingle({ r \in Rows(rafflesT) : r.code = fullRaffleCode }) ELSE None

\* createEventWithRaffle(data) up to the answer of its code lookup, in a provider
\* `client` whose callback holds the organizer org and the selected event event.
\* data: [raffleQuantity, raffleCode].  evOk, answered: the store took the event
\* insert, answered the lookup.  A call the lookup lets through awaits its insert;
\* newEvent: the call has inserted its event.
createEventWithRaffle(client, org, event, data, evOk, answered) ==
  LET insertEvent == event = None
      eventId == IF insertEvent THEN Len(eventsT) + 1 ELSE event.id
  IN  IF org = None
      THEN /\ UNCHANGED <<storeVars, sessionVars, mirrorVars, inflight, pageVars>>
           /\ started' = NoFetch
           /\ Returned("createEventWithRaffle", "not-logged-in")
      ELSE IF insertEvent /\ ~evOk
      THEN /\ UNCHANGED <<storeVars, sessionVars, mirrorVars, inflight, pageVars>>
           /\ started' = NoFetch
           /\ Returned("createEventWithRaffle", "event-error")
      ELSE LET fullRaffleCode == org.organizerCode \o data.raffleCode
           IN  /\ insertEvent => Len(eventsT) < MaxEvents
               /\ eventsT' = IF insertEvent
                             THEN Append(eventsT, [id |-> eventId, organizer_id |-> org.id])
                             ELSE eventsT
               /\ UNCHANGED <<organizersT, rafflesT, participantsT, companyVars,
                              sessionVars, mirrorVars, inflight, doc, answers, wheelVars>>
               /\ started' = NoFetch
               /\ IF existingRaffle(fullRaffleCode, answered) # None
                  THEN /\ UNCHANGED pending
                       /\ Returned("createEventWithRaffle", "duplicate")
                  ELSE /\ pending' = pending \cup
                            { [client |-> client, organizerId |-> org.id,
                               code |-> fullRaffleCode, event_id |-> eventId,
                               newEvent |-> insertEvent,
                               quantity |-> data.raffleQuantity] }
                       /\ Returned("createEventWithRaffle", "awaiting")

\* The rest of a createEventWithRaffle call: the raffle insert is answered (writeOk:
\* the store took it), the organizer's fetch is started in the provider of the call.
createEventWithRaffleInsert(call, writeOk) ==
  /\ call \in pending
  /\ pending' = pending \ {call}
  /\ UNCHANGED <<organizersT, eventsT, participantsT, companyVars, sessionVars,
                 mirrorVars, doc, answers, wheelVars>>
  /\ IF ~writeOk
     THEN /\ UNCHANGED <<rafflesT, inflight>>
          /\ started' = NoFetch
          /\ Returned("createEventWithRaffle", "error")
     ELSE /\ Len(rafflesT) < MaxRaffles
          /\ rafflesT' = Append(rafflesT,
                                [id |-> Len(rafflesT) + 1, event_id |-> call.event_id,
                                 quantity |-> call.quantity, code |-> call.code])
          /\ IF call.client = 1
             THEN /\ started' = [kind |-> "organizer", arg |-> call.organizerId]
                  /\ inflight' = inflight \cup {started'}
             ELSE /\ started' = NoFetch
                  /\ UNCHANGED inflight
          /\ last' = [op |-> "createEventWithRaffle", res |-> "ok",
                      val |-> Len(rafflesT) + 1]

\* The quantity the raffle form is left with.
RaffleQuantity == 1
\* The raffle form submitted with `typed` in its code field: the field keeps what was
\* typed upper-cased (onChange).  The button is disabled while a call is awaited.
handleSubmit(typed, evOk, answered) ==
  /\ \A c \in pending : c.client # 1
  /\ IF ToUpperCase(typed) = Empty \/ RaffleQuantity < 1
     THEN /\ UNCHANGED <<storeVars, sessionVars, mirrorVars, inflight, pageVars>>
          /\ started' = NoFetch
          /\ Returned("handleSubmit", "invalid")
     ELSE createEventWithRaffle(1, loggedInOrganizer, selectedEvent,
                                [raffleQuantity |-> RaffleQuantity,
                                 raffleCode |-> ToUpperCase(typed)],
                                evOk, answered)

\* The same form submitted in another browser, where the first organizer of the store
\* is logged in and has selected the first event.
handleSubmitElsewhere(typed, answered) ==
  /\ \A c \in pending : c.client # 2
  /\ ToUpperCase(typed) # Empty
  /\ createEventWithRaffle(2, organizerToCamel(organizersT[1]), eventToCamel(eventsT[1]),
                           [raffleQuantity |-> RaffleQuantity,
                            raffleCode |-> ToUpperCase(typed)],
                           TRUE, answered)

\* findRaffleByCode(code): the raffle with its event, or null.
\* from('raffles').select('*, events(*)').eq('code', code.toUpperCase()).single()
findRaffleByCode(code, answered) ==
  LET data == IF answered
              THEN Single({ r \in Rows(rafflesT) : r.code = ToUpperCase(code) })
              ELSE None
      event == IF data = None THEN None
               ELSE Single({ e \in Rows(eventsT) : e.id = data.event_id })
  IN  /\ UNCHANGED <<storeVars, sessionVars, mirrorVars, inflight, pageVars>>
      /\ started' = NoFetch
      /\ IF data = None \/ event = None
         THEN Returned("findRaffleByCode", "null")
         ELSE last' = [op |-> "findRaffleByCode", res |-> "found", val |-> data.id]

\* ------------------------------------------------------------ SpecRaffle
\* The page is loaded with organizer "a" (code "AB") persisted, who has one event and
\* no raffle yet; the effect has started the organizer's fetch.
InitRaffle ==
  /\ organizersT = << DrawOrganizer >>
  /\ eventsT = DrawEvents
  /\ rafflesT = << >>
  /\ participantsT = << >>
  /\ companiesT = {}
  /\ collaboratorsT = {}
  /\ prizesT = {}
  /\ loggedInOrganizer = organizerToCamel(DrawOrganizer)
  /\ loggedInCollaborator = None
  /\ selectedEventId = NoId
  /\ selectedRaffleId = NoId
  /\ isSuperAdmin = FALSE
  /\ impersonatingFromAdmin = FALSE
  /\ organizers = {}
  /\ events = {}
  /\ raffles = {}
  /\ participants = {}
  /\ companies = {}
  /\ collaborators = {}
  /\ prizes = {}
  /\ pending = {}
  /\ answers = {}
  /\ noWheel
  /\ doc = NoDoc
  /\ started = scopedFetch(isSuperAdmin, impersonatingFromAdmin,
                           loggedInOrganizer, loggedInCollaborator)
  /\ inflight = {started} \ {NoFetch}
  /\ last = [op |-> "init", res |-> "void", val |-> NoId]

\* What is typed in the code field here: nothing, "x" or "Y".
TypedCodes == { Empty, <<120>>, <<89>> }
\* The codes looked up here: "ABX", "abx", "ABY", "ABZ".
LookupCodes == { <<65, 66, 88>>, <<97, 98, 120>>, <<65, 66, 89>>, <<65, 66, 90>> }

NextRaffle ==
  \/ \E t \in TypedCodes, e \in BOOLEAN, a \in BOOLEAN : handleSubmit(t, e, a)
  \/ \E t \in TypedCodes, a \in BOOLEAN : handleSubmitElsewhere(t, a)
  \/ \E c \in pending, w \in BOOLEAN : createEventWithRaffleInsert(c, w)
  \/ \E code \in LookupCodes, a \in BOOLEAN : findRaffleByCode(code, a)
  \/ \E ans \in FetchAnswers : fetchOrganizerData(1, ans)
  \/ \E ev \in {1, NoId} : setSelectedEventId(ev)

SpecRaffle == InitRaffle /\ [][NextRaffle]_vars

\* ------------------------------------------------------------ SpecView
\* The page is loaded with the admin session persisted; the store holds organizers "a"
\* (code "AB", event 1) and "b" (code "CD", event 2) and no raffle; the effect has
\* started the admin's fetch.
InitView ==
  /\ organizersT = SyncOrganizers
  /\ eventsT = SyncEvents
  /\ rafflesT = << >>
  /\ participantsT = << >>
  /\ companiesT = {}
  /\ collaboratorsT = {}
  /\ prizesT = {}
  /\ loggedInOrganizer = None
  /\ loggedInCollaborator = None
  /\ selectedEventId = NoId
  /\ selectedRaffleId = NoId
  /\ isSuperAdmin = TRUE
  /\ impersonatingFromAdmin = FALSE
  /\ organizers = {}
  /\ events = {}
  /\ raffles = {}
  /\ participants = {}
  /\ companies = {}
  /\ collaborators = {}
  /\ prizes = {}
  /\ pending = {}
  /\ answers = {}
  /\ noWheel
  /\ doc = NoDoc
  /\ started = scopedFetch(isSuperAdmin, impersonatingFromAdmin,
                           loggedInOrganizer, loggedInCollaborator)
  /\ inflight = {started} \ {NoFetch}
  /\ last = [op |-> "init", res |-> "void", val |-> NoId]

\* The events the pages list: those of the mirror (organizerEvents), and of these the
\* ones that belong to an organizer.
listedEvents == { e.id : e \in events }
eventsOf(organizerId) == { e.id : e \in { x \in events : x.organizerId = organizerId } }

\* The admin views an organizer with one of that organizer's events; the raffle page
\* selects among the events listed and submits "x".  Every request is answered.
NextView ==
  \/ runEffect
  \/ effectRan /\ fetchAdminData(AllFetched)
  \/ effectRan /\ isSuperAdmin /\ ~impersonatingFromAdmin
       /\ \E o \in 1..MaxOrganizers : \E ev \in eventsOf(o) : viewAsOrganizer(o, ev, TRUE)
  \/ effectRan /\ impersonatingFromAdmin /\ stopImpersonating
  \/ effectRan /\ \E o \in 1..MaxOrganizers : fetchOrganizerData(o, AllFetched)
  \/ effectRan /\ organizerPages
       /\ \E ev \in listedEvents \cup {NoId} : setSelectedEventId(ev)
  \/ effectRan /\ organizerPages /\ handleSubmit(<<120>>, TRUE, TRUE)
  \/ effectRan /\ \E c \in pending : createEventWithRaffleInsert(c, TRUE)

SpecView == InitView /\ [][NextView]_vars

\* ------------------------------------------------------------ data transformation helpers
\* A value is a leaf, an array of values, or an object: a sequence of <<key, value>>
\* entries in insertion order, a key being a string.
Leaf(n) == [kind |-> "leaf", of |-> n]
Array(vs) == [kind |-> "array", of |-> vs]
Object(es) == [kind |-> "object", of |-> es]

IsLower(c) == c >= 97 /\ c <= 122
IsUpper(c) == c >= 65 /\ c <= 90
IsDigit(c) == c >= 48 /\ c <= 57
Hyphen == 45
Underscore == 95

\* str.replace(/([-_][a-z])/g, group => group.toUpperCase().replace('_', ''))
\* (snakeToCamel_keepUnderscore: the same without .replace('_', '').)
RECURSIVE snakeToCamel_keepUnderscore(_)
snakeToCamel_keepUnderscore(str) ==
  IF str = << >> THEN << >>
  ELSE IF Len(str) >= 2 /\ str[1] \in {Hyphen, Underscore} /\ IsLower(str[2])
  THEN <<str[1], str[2] - 32>> \o snakeToCamel_keepUnderscore(SubSeq(str, 3, Len(str)))
  ELSE <<str[1]>> \o snakeToCamel_keepUnderscore(Tail(str))
RECURSIVE snakeToCamel(_)
snakeToCamel(str) ==
  IF str = << >> THEN << >>
  ELSE IF Len(str) >= 2 /\ str[1] \in {Hyphen, Underscore} /\ IsLower(str[2])
  THEN (IF str[1] = Underscore THEN <<str[2] - 32>> ELSE <<str[1], str[2] - 32>>)
       \o snakeToCamel(SubSeq(str, 3, Len(str)))
  ELSE <<str[1]>> \o snakeToCamel(Tail(str))

\* str.replace(/[A-Z]/g, letter => `_${letter.toLowerCase()}`)
RECURSIVE camelToSnake(_)
camelToSnake(str) ==
  IF str = << >> THEN << >>
  ELSE (IF IsUpper(str[1]) THEN <<Underscore, str[1] + 32>> ELSE <<str[1]>>)
       \o camelToSnake(Tail(str))

\* result[key] = value on an object's entries: an own key keeps its place.
SetKey(result, key, value) ==
  IF \E i \in 1..Len(result) : result[i][1] = key
  THEN [i \in 1..Len(result) |-> IF result[i][1] = key THEN <<key, value>> ELSE result[i]]
  ELSE Append(result, <<key, value>>)

\* 'password', 'confirmPassword': the keys toSnake leaves as they are, value included.
PasswordKey == <<112, 97, 115, 115, 119, 111, 114, 100>>
ConfirmPasswordKey == <<99, 111, 110, 102, 105, 114, 109, 80, 97, 115, 115, 119, 111, 114, 100>>
SpecialKeys == { PasswordKey, ConfirmPasswordKey }

RECURSIVE toCamel(_), toCamelReduce(_, _)
\* Object.keys(obj).reduce((result, key) => ({...result, [snakeToCamel(key)]: ...}), {})
toCamelReduce(es, result) ==
  IF es = << >> THEN result
  ELSE toCamelReduce(Tail(es),
                     SetKey(result, snakeToCamel(es[1][1]), toCamel(es[1][2])))
toCamel(obj) ==
  IF obj.kind = "array"
  THEN Array([i \in 1..Len(obj.of) |-> toCamel(obj.of[i])])
  ELSE IF obj.kind = "object"
  THEN Object(toCamelReduce(obj.of, << >>))
  ELSE obj

RECURSIVE toSnake(_), toSnakeReduce(_, _)
toSnakeReduce(es, result) ==
  IF es = << >> THEN result
  ELSE toSnakeReduce(Tail(es),
                     IF es[1][1] \in SpecialKeys
                     THEN SetKey(result, es[1][1], es[1][2])
                     ELSE SetKey(result, camelToSnake(es[1][1]), toSnake(es[1][2])))
toSnake(obj) ==
  IF obj.kind = "array"
  THEN Array([i \in 1..Len(obj.of) |-> toSnake(obj.of[i])])
  ELSE IF obj.kind = "object"
  THEN Object(toSnakeReduce(obj.of, << >>))
  ELSE obj

\* ------------------------------------------------------------ SpecDoc
\* The keys given here: "aB", "b", "a_b", "a_1", "password", "confirmPassword",
\* "confirm_password".
DocKeys ==
  { <<97, 66>>, <<98>>, <<97, 95, 98>>, <<97, 95, 49>>, PasswordKey, ConfirmPasswordKey,
    <<99, 111, 110, 102, 105, 114, 109, 95>> \o PasswordKey }
\* The leaves given here, the i-th entry of a wide mapping or array holding leaf i.
Leaves == { Leaf(n) : n \in 1..MaxWidth }
\* The mappings of n entries with distinct keys, and the array of n entries, of leaves.
WideObjects(n) ==
  { Object([i \in 1..n |-> <<ks[i], Leaf(i)>>]) :
      ks \in { f \in [1..n -> DocKeys] : \A i, j \in 1..n : i # j => f[i] # f[j] } }
WideArray(n) == Array([i \in 1..n |-> Leaf(i)])
\* The values nested at most d deep: a leaf, a wide mapping or array of leaves, or a
\* mapping or array of one entry that holds a value nested less deep.
RECURSIVE Docs(_)
Docs(d) ==
  IF d = 0 THEN Leaves
  ELSE LET inner == Docs(d - 1)
       IN  inner
           \cup { Object(<< <<k, v>> >>) : k \in DocKeys, v \in inner }
           \cup { Array(<<v>>) : v \in inner }
           \cup UNION { WideObjects(n) : n \in 2..MaxWidth }
           \cup { WideArray(n) : n \in 2..MaxWidth }

\* A value is given; nothing else is in play.
InitDoc ==
  /\ doc \in Docs(MaxDepth)
  /\ organizersT = << >>
  /\ eventsT = << >>
  /\ rafflesT = << >>
  /\ participantsT = << >>
  /\ companiesT = {}
  /\ collaboratorsT = {}
  /\ prizesT = {}
  /\ loggedInOrganizer = None
  /\ loggedInCollaborator = None
  /\ selectedEventId = NoId
  /\ selectedRaffleId = NoId
  /\ isSuperAdmin = FALSE
  /\ impersonatingFromAdmin = FALSE
  /\ organizers = {}
  /\ events = {}
  /\ raffles = {}
  /\ participants = {}
  /\ companies = {}
  /\ collaborators = {}
  /\ prizes = {}
  /\ pending = {}
  /\ answers = {}
  /\ noWheel
  /\ started = NoFetch
  /\ inflight = {}
  /\ last = [op |-> "init", res |-> "void", val |-> NoId]

\* The value is converted, and the result taken for the value.
applyToSnake ==
  /\ doc' = toSnake(doc)
  /\ UNCHANGED <<storeVars, sessionVars, mirrorVars, inflight, started, pending, answers, wheelVars>>
  /\ Returned("toSnake", "void")
applyToCamel ==
  /\ doc' = toCamel(doc)
  /\ UNCHANGED <<storeVars, sessionVars, mirrorVars, inflight, started, pending, answers, wheelVars>>
  /\ Returned("toCamel", "void")

NextDoc == applyToSnake \/ applyToCamel

SpecDoc == InitDoc /\ [][NextDoc]_vars

\* ------------------------------------------------------------ mirror properties
\* The identity the effect fetches for: the admin, else the stored organizer, else the
\* stored collaborator.
effectiveIdentity ==
  scopedFetch(isSuperAdmin, impersonatingFromAdmin, loggedInOrganizer, loggedInCollaborator)
\* No fetch is in flight, and none is left for the effect to call.
nothingInFlight == inflight = {} /\ started = NoFetch

\* The rows of the store in the scope of organizer organizerId, by table.
organizerScope(organizerId) ==
  LET ev == { e \in Rows(eventsT) : e.organizer_id = organizerId }
      rf == { r \in Rows(rafflesT) : \E e \in ev : r.event_id = e.id }
      co == { c \in companiesT : \E e \in ev : c.event_id = e.id }
  IN  [events |-> ev, raffles |-> rf, companies |-> co,
       participants |-> { x \in Rows(participantsT) : \E r \in rf : x.raffle_id = r.id },
       collaborators |-> { c \in collaboratorsT : \E k \in co : c.company_id = k.id },
       prizes |-> { z \in prizesT : \E k \in co : z.company_id = k.id }]
\* The rows of the store in the scope of a collaborator of company companyId.
collaboratorScope(companyId) ==
  LET co == { c \in companiesT : c.id = companyId }
      ev == { e \in Rows(eventsT) : \E c \in co : c.event_id = e.id }
      rf == { r \in Rows(rafflesT) : \E e \in ev : r.event_id = e.id }
  IN  [events |-> ev, raffles |-> rf, companies |-> co,
       participants |-> { x \in Rows(participantsT) : \E r \in rf : x.raffle_id = r.id },
       collaborators |-> {},
       prizes |-> { z \in prizesT : z.company_id = companyId }]
\* The mirrored rows all have their id among those of a scope's rows, table by table.
mirrorWithin(scope) ==
  /\ \A e \in events : \E x \in scope.events : x.id = e.id
  /\ \A r \in raffles : \E x \in scope.raffles : x.id = r.id
  /\ \A c \in companies : \E x \in scope.companies : x.id = c.id
  /\ \A q \in participants : \E x \in scope.participants : x.id = q.id
  /\ \A c \in collaborators : \E x \in scope.collaborators : x.id = c.id
  /\ \A z \in prizes : \E x \in scope.prizes : x.id = z.id
\* The mirror holds the rows of a scope as the store has them, table by table.
mirrorHolds(scope) ==
  /\ events = { eventToCamel(e) : e \in scope.events }
  /\ raffles = { raffleToCamel(r) : r \in scope.raffles }
  /\ companies = { companyToCamel(c) : c \in scope.companies }
  /\ participants = { participantToCamel(x) : x \in scope.participants }
  /\ prizes = { prizeToCamel(z) : z \in scope.prizes }

\* C12: with no fetch in flight, the mirror holds no row outside the scope of the
\* effective identity: under an organizer only rows that descend from its events, under
\* a collaborator only its company, that company's event and their raffles, prizes and
\* participants, under the admin no row fetched for an organizer or a collaborator, and
\* with no identity (after logout) no row at all; the list of organizers is mirrored
\* for the admin only.
C12_MirrorWithinScope ==
  nothingInFlight =>
    /\ effectiveIdentity.kind = "organizer" =>
         mirrorWithin(organizerScope(effectiveIdentity.arg)) /\ organizers = {}
    /\ effectiveIdentity.kind = "collaborator" =>
         mirrorWithin(collaboratorScope(effectiveIdentity.arg)) /\ organizers = {}
    /\ effectiveIdentity.kind = "admin" =>
         /\ raffles = {} /\ participants = {} /\ companies = {}
         /\ collaborators = {} /\ prizes = {}
    /\ effectiveIdentity.kind = "none" =>
         /\ organizers = {} /\ events = {} /\ raffles = {} /\ participants = {}
         /\ companies = {} /\ collaborators = {} /\ prizes = {}

\* The mutations of companies, collaborators, prizes and participants.
MutationOps ==
  { "saveCompany", "updateCompanySettings", "deleteCompany", "addCollaborator",
    "updateCollaborator", "deleteCollaborator", "savePrize", "deletePrize",
    "addParticipant" }
\* C13: a mutation step leaves the mirror as it was; a mutation step that changed the
\* store starts the scoped fetch of the effective identity; and when that fetch is
\* answered, in full and with no other fetch in flight, the mirror holds the rows of the
\* identity's scope as the store has them.
C13_WriteThenRefetch ==
  [][ /\ last'.op \in MutationOps => UNCHANGED mirrorVars
      /\ (last'.op \in MutationOps /\ storeVars' # storeVars) => started' = effectiveIdentity
      /\ ( /\ effectiveIdentity.kind = "organizer"
           /\ fetchOrganizerData(effectiveIdentity.arg, AllFetched)
           /\ inflight' = {} )
         => mirrorHolds(organizerScope(effectiveIdentity.arg))'
              /\ collaborators' = { collaboratorToCamel(c) :
                                      c \in organizerScope(effectiveIdentity.arg).collaborators }
      /\ ( /\ effectiveIdentity.kind = "collaborator"
           /\ fetchCollaboratorData(effectiveIdentity.arg, AllFetched)
           /\ inflight' = {} )
         => mirrorHolds(collaboratorScope(effectiveIdentity.arg))'
    ]_vars

\* ------------------------------------------------------------ calls and fetches in steps
\* The winners of a raffle in the store.
Winners(raffleId) ==
  { p \in Rows(participantsT) : p.raffle_id = raffleId /\ p.is_winner }
\* The rows of a raffle whose e-mail equals email after lower-casing both.
SameEmail(raffleId, email) ==
  { p \in Rows(participantsT) :
      p.raffle_id = raffleId /\ ToLowerCase(p.email) = ToLowerCase(email) }
\* A call of addParticipant or drawWinner that awaits the answer to its write, or has
\* returned res to a page that has not yet taken it; id: the row drawn.
Call(call, op, raffleId, email, id) ==
  [call |-> call, op |-> op, raffleId |-> raffleId, email |-> email, id |-> id,
   res |-> "awaiting"]
\* The call c has returned res.
CallReturns(c, res) == pending' = (pending \ {c}) \cup { [c EXCEPT !.res = res] }

\* addParticipant(participantData) up to the answer of its winner-count query.
addParticipantChecked(call, participantData, ans) ==
  LET raffle == raffleById(participantData.raffleId, ans.raffle)
      existing == existingParticipant(ToLowerCase(participantData.email),
                                      participantData.raffleId, ans.dup)
      count == winnerCount(participantData.raffleId, ans.count)
      res == IF raffle = None THEN "not-found"
             ELSE IF existing # None THEN "duplicate"
             ELSE IF count # NullCount /\ count >= raffle.quantity THEN "ceiling"
             ELSE "awaiting"
  IN  /\ \A c \in pending : c.call # call
      /\ UNCHANGED <<storeVars, sessionVars, mirrorVars, inflight, doc, answers, wheelVars>>
      /\ started' = NoFetch
      /\ pending' = IF res = "awaiting"
                    THEN pending \cup { Call(call, "addParticipant", participantData.raffleId,
                                             participantData.email, NoId) }
                    ELSE pending
      /\ Returned("addParticipant", res)

\* The participants table after from('participants').insert(snake): the row is added
\* when the store takes the insert (writeOk), else the table is as it was.
\* (participantsInsert_unique: the same, the store refusing a row whose raffle already
\* holds the e-mail.)
participantsInsert_unique(snake, writeOk) ==
  IF writeOk /\ SameEmail(snake.raffle_id, snake.email) = {}
  THEN Append(participantsT, participantRow(snake))
  ELSE participantsT
participantsInsert(snake, writeOk) ==
  IF writeOk THEN Append(participantsT, participantRow(snake)) ELSE participantsT

\* The rest of an addParticipant call: the insert is answered, the organizer's fetch is
\* started.
addParticipantInserted(c, writeOk) ==
  LET inserted == participantsInsert(
                    participantToSnake(
                      [raffleId |-> c.raffleId, email |-> c.email, isWinner |-> FALSE]),
                    writeOk)
  IN  /\ c \in pending /\ c.op = "addParticipant" /\ c.res = "awaiting"
      /\ Len(participantsT) < MaxParticipants
      /\ UNCHANGED <<organizersT, eventsT, rafflesT, companyVars, sessionVars, mirrorVars,
                     doc, answers, wheelVars>>
      /\ participantsT' = inserted
      /\ IF inserted = participantsT
         THEN /\ UNCHANGED inflight
              /\ started' = NoFetch
              /\ CallReturns(c, "insert-error")
              /\ Returned("addParticipant", "insert-error")
         ELSE /\ IF loggedInOrganizer # None
                 THEN /\ started' = [kind |-> "organizer", arg |-> loggedInOrganizer.id]
                      /\ inflight' = inflight \cup {started'}
                 ELSE /\ started' = NoFetch
                      /\ UNCHANGED inflight
              /\ CallReturns(c, "ok")
              /\ Returned("addParticipant", "ok")

\* drawWinner() up to the answer of its eligible query and the choice of a row.
drawWinnerFetched(call, answered) ==
  LET eligible == IF selectedRaffle # None /\ answered
                  THEN eligibleRows(selectedRaffle.id) ELSE {}
  IN  /\ \A c \in pending : c.call # call
      /\ UNCHANGED <<storeVars, sessionVars, mirrorVars, inflight, doc, answers, wheelVars>>
      /\ started' = NoFetch
      /\ IF selectedRaffle = None \/ eligible = {}
         THEN /\ UNCHANGED pending
              /\ Returned("drawWinner", "null")
         ELSE \E winnerData \in eligible :
                /\ pending' = pending \cup
                     { Call(call, "drawWinner", winnerData.raffle_id, winnerData.email,
                            winnerData.id) }
                /\ Returned("drawWinner", "awaiting")

\* The rows the update of drawWinner matches: update(...).eq('id', id)
\* (drawWinnerMatched_ifEligible: the same with .eq('is_winner', false) added.)
drawWinnerMatched_ifEligible(id) ==
  { p \in Rows(participantsT) : p.id = id /\ ~p.is_winner }
drawWinnerMatched(id) == { p \in Rows(participantsT) : p.id = id }

\* The rest of a drawWinner call: the update is answered (updated: with the row), the
\* fetches of the stored identities are started.
drawWinnerUpdated(c, updated) ==
  LET updatedWinner == IF updated THEN Single(drawWinnerMatched(c.id)) ELSE None
  IN  /\ c \in pending /\ c.op = "drawWinner" /\ c.res = "awaiting"
      /\ UNCHANGED <<organizersT, eventsT, rafflesT, companyVars, sessionVars, mirrorVars,
                     doc, answers, wheelVars>>
      /\ IF updatedWinner = None
         THEN /\ UNCHANGED <<participantsT, inflight>>
              /\ started' = NoFetch
              /\ CallReturns(c, "null")
              /\ Returned("drawWinner", "null")
         ELSE /\ participantsT' =
                   [i \in 1..Len(participantsT) |->
                      IF participantsT[i] = updatedWinner
                      THEN [participantsT[i] EXCEPT !.is_winner = TRUE, !.drawn_at = Now]
                      ELSE participantsT[i]]
              /\ LET org == IF loggedInOrganizer # None
                            THEN {[kind |-> "organizer", arg |-> loggedInOrganizer.id]}
                            ELSE {}
                     col == IF loggedInCollaborator # None
                            THEN {[kind |-> "collaborator",
                                   arg |-> loggedInCollaborator.companyId]}
                            ELSE {}
                 IN  /\ inflight' = inflight \cup org \cup col
                     /\ started' = IF col # {} THEN CHOOSE f \in col : TRUE
                                   ELSE IF org # {} THEN CHOOSE f \in org : TRUE
                                   ELSE NoFetch
              /\ CallReturns(c, "winner")
              /\ last' = [op |-> "drawWinner", res |-> "winner", val |-> c.id]

\* The page takes the result of a call that has returned.
callSettled(c) ==
  /\ c \in pending /\ c.res # "awaiting"
  /\ pending' = pending \ {c}
  /\ UNCHANGED <<storeVars, sessionVars, mirrorVars, inflight, started, doc, answers, wheelVars, last>>

\* fetchOrganizerData(organizerId), its requests answered by the store: the rows read
\* are on their way to the setters.
fetchOrganizerDataRead(organizerId) ==
  LET f == [kind |-> "organizer", arg |-> organizerId]
  IN  /\ f \in inflight
      /\ Cardinality(answers) < MaxCalls
      /\ inflight' = inflight \ {f}
      /\ answers' = answers \cup { [fetch |-> f, rows |-> organizerScope(organizerId)] }
      /\ started' = NoFetch
      /\ UNCHANGED <<storeVars, sessionVars, mirrorVars, pending, doc, wheelVars, last>>

\* The rows read reach the setters of fetchOrganizerData.
\* (fetchOrganizerDataArrived_ifCurrent: the same, rows that are no longer those of the
\* store being dropped.)
fetchOrganizerDataArrived_ifCurrent(a) ==
  /\ a \in answers
  /\ answers' = answers \ {a}
  /\ UNCHANGED <<storeVars, sessionVars, inflight, pending, doc, wheelVars, organizers>>
  /\ started' = NoFetch
  /\ IF a.rows = organizerScope(a.fetch.arg)
     THEN /\ events' = { eventToCamel(e) : e \in a.rows.events }
          /\ raffles' = { raffleToCamel(r) : r \in a.rows.raffles }
          /\ participants' = { participantToCamel(x) : x \in a.rows.participants }
          /\ companies' = { companyToCamel(c) : c \in a.rows.companies }
          /\ collaborators' = { collaboratorToCamel(c) : c \in a.rows.collaborators }
          /\ prizes' = { prizeToCamel(z) : z \in a.rows.prizes }
     ELSE UNCHANGED <<events, raffles, participants, companies, collaborators, prizes>>
  /\ Returned("fetchOrganizerData", "void")
fetchOrganizerDataArrived(a) ==
  /\ a \in answers
  /\ answers' = answers \ {a}
  /\ UNCHANGED <<storeVars, sessionVars, inflight, pending, doc, wheelVars, organizers>>
  /\ started' = NoFetch
  /\ events' = { eventToCamel(e) : e \in a.rows.events }
  /\ raffles' = { raffleToCamel(r) : r \in a.rows.raffles }
  /\ participants' = { participantToCamel(x) : x \in a.rows.participants }
  /\ companies' = { companyToCamel(c) : c \in a.rows.companies }
  /\ collaborators' = { collaboratorToCamel(c) : c \in a.rows.collaborators }
  /\ prizes' = { prizeToCamel(z) : z \in a.rows.prizes }
  /\ Returned("fetchOrganizerData", "void")

\* ------------------------------------------------------------ SpecRace
\* The registrations made here: raffle 1 (quantity 1), e-mail "A" or "b".
RaceRegistrations == [raffleId : {1}, email : DrawEmails]

\* From the state of InitDraw, every store request answered.
NextRace ==
  \/ \E call \in 1..MaxCalls, d \in RaceRegistrations :
       addParticipantChecked(call, d, AllAnswered)
  \/ \E c \in pending : addParticipantInserted(c, TRUE)
  \/ \E call \in 1..MaxCalls : drawWinnerFetched(call, TRUE)
  \/ \E c \in pending : drawWinnerUpdated(c, TRUE)
  \/ \E c \in pending : callSettled(c)
  \/ fetchOrganizerDataRead(1)
  \/ \E a \in answers : fetchOrganizerDataArrived(a)
  \/ \E r \in {1, NoId} : setSelectedRaffleId(r)

SpecRace == InitDraw /\ [][NextRace]_vars

\* ------------------------------------------------------------ mutation result properties
\* What a mutation returns when it reports a failure with a message.
FailureResults == { "upload-failed", "error", "insert-error" }

\* C17: a saveCompany, addCollaborator or updateCollaborator step that is given a raw
\* file whose upload fails returns a failure and leaves the store as it was.
C17_UploadFailureAborts ==
  [][ /\ (last'.op = "saveCompany" /\ selectedEvent # None) =>
           \A d \in CompanyForms, id \in companyIds \cup {NoId}, w \in BOOLEAN :
             (d.logoUrl = File /\ saveCompany(d, id, FALSE, w)) =>
               last'.res \in FailureResults /\ UNCHANGED storeVars
      /\ last'.op = "addCollaborator" =>
           \A c \in companyIds, d \in CollaboratorForms, w \in BOOLEAN :
             (d.photoUrl = File /\ addCollaborator(c, d, FALSE, w)) =>
               last'.res \in FailureResults /\ UNCHANGED storeVars
      /\ last'.op = "updateCollaborator" =>
           \A id \in collaboratorIds, d \in CollaboratorForms, w \in BOOLEAN :
             (d.photoUrl = File /\ updateCollaborator(id, d, FALSE, w)) =>
               last'.res \in FailureResults /\ UNCHANGED storeVars
    ]_vars

\* C18: a mutation step whose insert, update or delete the store rejects returns a
\* failure.
C18_RejectedWriteReported ==
  [][ /\ (last'.op = "saveCompany" /\ selectedEvent # None) =>
           \A d \in CompanyForms, id \in companyIds \cup {NoId}, u \in BOOLEAN :
             saveCompany(d, id, u, FALSE) => last'.res \in FailureResults
      /\ last'.op = "deleteCompany" =>
           \A id \in companyIds : deleteCompany(id, FALSE) => last'.res \in FailureResults
      /\ last'.op = "addCollaborator" =>
           \A c \in companyIds, d \in CollaboratorForms, u \in BOOLEAN :
             addCollaborator(c, d, u, FALSE) => last'.res \in FailureResults
      /\ last'.op = "updateCollaborator" =>
           \A id \in collaboratorIds, d \in CollaboratorForms, u \in BOOLEAN :
             updateCollaborator(id, d, u, FALSE) => last'.res \in FailureResults
      /\ last'.op = "deleteCollaborator" =>
           \A id \in collaboratorIds : deleteCollaborator(id, FALSE) => last'.res \in FailureResults
      /\ (last'.op = "updateCompanySettings" /\ wheelPage) =>
           ( updateCompanySettings(loggedInCollaboratorCompany.id, Colors, FALSE)
             => last'.res \in FailureResults )
      /\ (last'.op = "savePrize" /\ wheelPage) =>
           \A d \in PrizeForms, id \in prizeIds \cup {NoId} :
             savePrize(loggedInCollaboratorCompany.id, d, id, FALSE)
             => last'.res \in FailureResults
      /\ last'.op = "deletePrize" =>
           \A id \in prizeIds : deletePrize(id, FALSE) => last'.res \in FailureResults
      /\ last'.op = "addParticipant" =>
           \A d \in SyncRegistrations :
             ( /\ raffleById(d.raffleId, TRUE) # None
               /\ existingParticipant(ToLowerCase(d.email), d.raffleId, TRUE) = None
               /\ winnerCount(d.raffleId, TRUE) < raffleById(d.raffleId, TRUE).quantity
               /\ addParticipant(d, [AllAnswered EXCEPT !.write = FALSE]) )
             => last'.res \in FailureResults
    ]_vars

\* ------------------------------------------------------------ registration and draw properties

\* C1: in the store, no raffle has more winners than its quantity.
C1_WinnersWithinQuantity ==
  \A r \in Rows(rafflesT) : Cardinality(Winners(r.id)) <= r.quantity

\* C2: an addParticipant step whose requests are all answered, for a raffle that already
\* holds a row with the same e-mail in some letter case, returns the duplicate-email
\* failure and inserts nothing; so no raffle holds two rows whose e-mails are equal
\* after lower-casing.
C2_OncePerEmail ==
  [][ last'.op = "addParticipant" =>
        \A d \in Registrations :
          (SameEmail(d.raffleId, d.email) # {} /\ addParticipant(d, AllAnswered)) =>
            /\ last'.res = "duplicate"
            /\ UNCHANGED participantsT
    ]_vars

\* C3: an addParticipant step, with its lookups answered, for a raffle whose winners
\* already number its quantity or more and for an e-mail the raffle does not hold,
\* returns the ceiling failure and inserts nothing; and a drawWinner step on a selected
\* raffle without a participant that has not won returns no winner and updates nothing.
C3_CeilingAndEmptyDraw ==
  [][ /\ last'.op = "addParticipant" =>
           \A d \in Registrations :
             ( /\ \E r \in Rows(rafflesT) :
                    r.id = d.raffleId /\ Cardinality(Winners(r.id)) >= r.quantity
               /\ SameEmail(d.raffleId, d.email) = {} )
             => \A w \in BOOLEAN :
                  addParticipant(d, [AllAnswered EXCEPT !.write = w])
                  => /\ last'.res = "ceiling"
                     /\ UNCHANGED participantsT
      /\ ( /\ last'.op = "drawWinner"
           /\ selectedRaffle # None
           /\ eligibleRows(selectedRaffle.id) = {} )
         => /\ last'.res = "null"
            /\ UNCHANGED participantsT
    ]_vars
\* A registration was refused at the ceiling: the raffle holds as many winners as its
\* quantity, and nobody of it is left to draw.
C3_Witness ==
  /\ last.op = "addParticipant" /\ last.res = "ceiling"
  /\ \E r \in Rows(rafflesT) :
       /\ Cardinality(Winners(r.id)) >= r.quantity
       /\ eligibleRows(r.id) = {}

\* C16: a drawWinner step with no selected raffle returns null and writes nothing; a step
\* that returns a winner returns a row of the selected raffle whose is_winner was false
\* in the store when the step read it, and leaves that row with is_winner true and
\* drawn_at stamped, every other row and every other table as it was; a step that
\* returns null writes nothing; and every row eligible for the selected raffle is the
\* result of some drawWinner step.
C16_DrawOnSelectedRaffle ==
  /\ [](selectedRaffle # None =>
          \A p \in eligibleRows(selectedRaffle.id) :
            ENABLED (drawWinner(TRUE, TRUE) /\ last'.res = "winner" /\ last'.val = p.id))
  /\ [][ last'.op = "drawWinner" =>
          /\ selectedRaffle = None => (last'.res = "null" /\ UNCHANGED storeVars)
          /\ last'.res = "null" => UNCHANGED storeVars
          /\ last'.res = "winner" =>
               /\ selectedRaffle # None
               /\ UNCHANGED <<organizersT, eventsT, rafflesT, companyVars>>
               /\ Len(participantsT') = Len(participantsT)
               /\ \E i \in 1..Len(participantsT) :
                    /\ participantsT[i].id = last'.val
                    /\ participantsT[i].raffle_id = selectedRaffle.id
                    /\ ~participantsT[i].is_winner
                    /\ participantsT'[i] =
                         [participantsT[i] EXCEPT !.is_winner = TRUE, !.drawn_at = Now]
                    /\ \A j \in 1..Len(participantsT) :
                         j # i => participantsT'[j] = participantsT[j]
      ]_vars
\* A draw returned a winner of the selected raffle, now flagged and stamped in the
\* store, while another raffle held a row as well.
C16_Witness ==
  /\ last.op = "drawWinner" /\ last.res = "winner"
  /\ selectedRaffle # None
  /\ \E p \in Rows(participantsT) :
       p.id = last.val /\ p.raffle_id = selectedRaffle.id /\ p.is_winner /\ p.drawn_at = Now
  /\ \E p \in Rows(participantsT) : p.raffle_id # selectedRaffle.id

\* ------------------------------------------------------------ raffle code properties
\* The raffles of the store whose code equals code up to letter case.
SameCode(code) == { r \in Rows(rafflesT) : ToUpperCase(r.code) = ToUpperCase(code) }

\* C15: in the store, no two raffle rows have the same code.
C15_RaffleCodesUnique ==
  \A i, j \in 1..Len(rafflesT) : i # j => rafflesT[i].code # rafflesT[j].code

\* C14: a form submitted with a code typed in any letter case, when the call goes on to
\* its insert, composes the organizer's code followed by the upper-cased text, and the
\* insert stores a raffle with that code; and a submit whose event insert and code
\* lookup are answered, while the store holds a raffle with the composed code, returns
\* the duplicate-code failure and goes on to no insert.
C14_ComposedCode ==
  [][ /\ last'.op = "createEventWithRaffle" /\ last'.res \in {"awaiting", "duplicate"} =>
           \A t \in TypedCodes, e \in BOOLEAN, a \in BOOLEAN :
             handleSubmit(t, e, a) =>
               LET composed == loggedInOrganizer.organizerCode \o ToUpperCase(t)
               IN  /\ last'.res = "awaiting" =>
                        \E c \in pending' \ pending : c.code = composed
                   /\ ( /\ a
                        /\ \E r \in Rows(rafflesT) : r.code = composed )
                      => /\ last'.res = "duplicate"
                         /\ UNCHANGED <<rafflesT, pending>>
      /\ last'.op = "createEventWithRaffle" /\ last'.res = "ok" =>
           \A c \in pending :
             createEventWithRaffleInsert(c, TRUE) =>
               /\ Len(rafflesT') = Len(rafflesT) + 1
               /\ rafflesT'[Len(rafflesT')].code = c.code
               /\ \A i \in 1..Len(rafflesT) : rafflesT'[i] = rafflesT[i]
    ]_vars

\* C19: a findRaffleByCode step whose lookup is answered, for a code that equals a
\* stored raffle's code up to letter case, returns that raffle (its event is in the
\* store); for a code no raffle has, it returns null.
C19_FindRaffleByCode ==
  [][ last'.op = "findRaffleByCode" =>
        \A code \in LookupCodes :
          findRaffleByCode(code, TRUE) =>
            IF SameCode(code) = {}
            THEN last'.res = "null"
            ELSE /\ last'.res = "found"
                 /\ \E r \in SameCode(code) : r.id = last'.val
    ]_vars

\* ------------------------------------------------------------ conversion properties
\* A camel-case key: a lower-case letter, then letters and digits.
IsCamelKey(k) ==
  /\ k # << >> /\ IsLower(k[1])
  /\ \A i \in 1..Len(k) : IsLower(k[i]) \/ IsUpper(k[i]) \/ IsDigit(k[i])
\* An underscore-case key: a lower-case letter, then lower-case letters, digits and
\* underscores.
IsSnakeKey(k) ==
  /\ k # << >> /\ IsLower(k[1])
  /\ \A i \in 1..Len(k) : IsLower(k[i]) \/ IsDigit(k[i]) \/ k[i] = Underscore
\* The keys of a value, at every depth.
RECURSIVE KeysOf(_)
KeysOf(v) ==
  IF v.kind = "array" THEN UNION { KeysOf(v.of[i]) : i \in 1..Len(v.of) }
  ELSE IF v.kind = "object"
  THEN UNION { {v.of[i][1]} \cup KeysOf(v.of[i][2]) : i \in 1..Len(v.of) }
  ELSE {}
\* The leaves of a value, in the order of its arrays and entries.
RECURSIVE LeavesOf(_), LeavesFrom(_)
LeavesFrom(vs) ==
  IF vs = << >> THEN << >> ELSE LeavesOf(vs[1]) \o LeavesFrom(Tail(vs))
LeavesOf(v) ==
  IF v.kind = "array" THEN LeavesFrom(v.of)
  ELSE IF v.kind = "object" THEN LeavesFrom([i \in 1..Len(v.of) |-> v.of[i][2]])
  ELSE <<v.of>>

\* C20, as stated: a value whose keys are all camel-case and not special comes back
\* from toSnake then toCamel as it was, a value whose keys are all underscore-case and
\* not special comes back from toCamel then toSnake as it was, and each conversion
\* keeps the leaves and their order.
C20_RoundTrip ==
  /\ (\A k \in KeysOf(doc) : IsCamelKey(k) /\ k \notin SpecialKeys) =>
       /\ toCamel(toSnake(doc)) = doc
       /\ LeavesOf(toSnake(doc)) = LeavesOf(doc)
  /\ (\A k \in KeysOf(doc) : IsSnakeKey(k) /\ k \notin SpecialKeys) =>
       /\ toSnake(toCamel(doc)) = doc
       /\ LeavesOf(toCamel(doc)) = LeavesOf(doc)

\* C20, amended: the same, the underscore-case keys being also none that toCamel turns
\* into a special key (confirm_password).
C20_RoundTripAmended ==
  /\ (\A k \in KeysOf(doc) : IsCamelKey(k) /\ k \notin SpecialKeys) =>
       /\ toCamel(toSnake(doc)) = doc
       /\ LeavesOf(toSnake(doc)) = LeavesOf(doc)
  /\ (\A k \in KeysOf(doc) :
        IsSnakeKey(k) /\ k \notin SpecialKeys /\ snakeToCamel(k) \notin SpecialKeys) =>
       /\ toSnake(toCamel(doc)) = doc
       /\ LeavesOf(toCamel(doc)) = LeavesOf(doc)
\* toSnake made a value with the key "a_b" below another key, which toCamel changes.
C20_Witness ==
  /\ last.op = "toSnake"
  /\ doc.kind = "object"
  /\ \E i \in 1..Len(doc.of) : <<97, 95, 98>> \in KeysOf(doc.of[i][2])
  /\ \A k \in KeysOf(doc) :
       IsSnakeKey(k) /\ k \notin SpecialKeys /\ snakeToCamel(k) \notin SpecialKeys
  /\ toCamel(doc) # doc

\* C28: an addParticipant step whose duplicate-email query or winner-count query is not
\* answered returns a failure and inserts nothing.
C28_GuardsEvaluated ==
  [][ last'.op = "addParticipant" =>
        \A d \in Registrations, ans \in Answers :
          ((~ans.dup \/ ~ans.count) /\ addParticipant(d, ans)) =>
            /\ last'.res # "ok"
            /\ UNCHANGED participantsT
    ]_vars

\* C26: a createEventWithRaffle step that returns a failure leaves the store as it was,
\* and a call whose raffle insert is rejected leaves no event row that it inserted.
C26_FailureLeavesStore ==
  [][ last'.op = "createEventWithRaffle" =>
        /\ last'.res \in {"not-logged-in", "event-error", "duplicate", "error"} =>
             UNCHANGED storeVars
        /\ last'.res = "error" =>
             \A c \in pending \ pending' :
               ~(c.newEvent /\ \E e \in Rows(eventsT') : e.id = c.event_id)
    ]_vars

\* ------------------------------------------------------------ raffle ownership
\* s is the beginning of t.
IsPrefix(s, t) == Len(s) <= Len(t) /\ SubSeq(t, 1, Len(s)) = s

\* C27: in the store, every raffle is of an event whose organizer's code begins the
\* raffle's code.
C27_RaffleOfOwnEvent ==
  \A r \in Rows(rafflesT) :
    \E e \in Rows(eventsT), o \in Rows(organizersT) :
      /\ e.id = r.event_id
      /\ o.id = e.organizer_id
      /\ IsPrefix(o.organizer_code, r.code)

\* ------------------------------------------------------------ interleaved calls
\* Every call has returned and its result is taken, and no fetch is left.
allCompleted == pending = {} /\ inflight = {} /\ answers = {}

\* C22: the rows a fetch has read are set as the mirror when they arrive, whatever the
\* store holds by then and whatever arrived before; the mirror never holds a row the
\* store does not have.  (With C22_Witness: the rows read first arrive last and stay.)
C22_LastArrivalWins ==
  /\ [] mirrorWithin(organizerScope(1))
  /\ [][ last'.op = "fetchOrganizerData" =>
           \A a \in answers : fetchOrganizerDataArrived(a) => mirrorHolds(a.rows)' ]_vars
\* All calls and fetches are completed and the mirror is not what the store holds for
\* the organizer: the last rows to arrive were read before a later write.
C22_Witness ==
  /\ allCompleted
  /\ last.op = "fetchOrganizerData"
  /\ ~mirrorHolds(organizerScope(1))
  /\ Cardinality(participants) < Len(participantsT)

\* C23: the insert of an addParticipant call that has passed its checks, once the store
\* takes it, returns success and adds a row with the call's e-mail to the raffle,
\* whatever rows the raffle holds by then.  (With C23_Witness: two such calls succeed.)
C23_BothRegistered ==
  [][ last'.op = "addParticipant" =>
        \A c \in pending :
          addParticipantInserted(c, TRUE) =>
            /\ last'.res = "ok"
            /\ Cardinality(SameEmail(c.raffleId, c.email)') =
                 Cardinality(SameEmail(c.raffleId, c.email)) + 1
    ]_vars
\* Two calls for the same raffle and e-mail have both returned success, and the raffle
\* holds two rows with that e-mail.
C23_Witness ==
  \E c1, c2 \in pending :
    /\ c1.call # c2.call
    /\ c1.op = "addParticipant" /\ c2.op = "addParticipant"
    /\ c1.res = "ok" /\ c2.res = "ok"
    /\ c1.raffleId = c2.raffleId /\ c1.email = c2.email
    /\ Cardinality(SameEmail(c1.raffleId, c1.email)) = 2

\* C24: the update of a drawWinner call that has chosen a row, once the store answers
\* it, returns that row as the winner, also when the row has become a winner since it
\* was chosen; the raffle's winners then stay as many as they were, and are one more
\* otherwise.  (With C24_Witness: two calls return the same row.)
C24_SameWinnerTwice ==
  [][ last'.op = "drawWinner" =>
        \A c \in pending :
          drawWinnerUpdated(c, TRUE) =>
            /\ last'.res = "winner" /\ last'.val = c.id
            /\ Cardinality(Winners(c.raffleId)') =
                 Cardinality(Winners(c.raffleId))
                 + (IF \E p \in Winners(c.raffleId) : p.id = c.id THEN 0 ELSE 1)
    ]_vars
\* Two calls have both returned the same row as winner, and the raffle has one winner.
C24_Witness ==
  \E c1, c2 \in pending :
    /\ c1.call # c2.call
    /\ c1.op = "drawWinner" /\ c2.op = "drawWinner"
    /\ c1.res = "winner" /\ c2.res = "winner"
    /\ c1.id = c2.id
    /\ Cardinality(Winners(c1.raffleId)) = 1

\* ------------------------------------------------------------ wheel pages
\* PublicRoleta: the company id of the page's address (useParams), and the mirrored
\* company that has it, or undefined.
companyId == 1
company ==
  IF \E c \in companies : c.id = companyId
  THEN CHOOSE c \in companies : c.id = companyId
  ELSE None
\* companyPrizes(id): the mirrored prizes of a company.
companyPrizes(id) == { z \in prizes : z.companyId = id }
\* prizes, in either page: the prizes of the page's company.
pagePrizes ==
  IF mounted = "public" THEN companyPrizes(companyId)
  ELSE IF loggedInCollaboratorCompany = None THEN {}
  ELSE companyPrizes(loggedInCollaboratorCompany.id)

\* What a wheel handler leaves alone outside the page's state.
wheelStep == /\ UNCHANGED <<storeVars, sessionVars, mirrorVars, inflight, pending, doc, answers>>
             /\ started' = NoFetch

\* CollaboratorRoleta handleSpin: the request is dropped (first line of the handler).
\* (handleSpinRefused_fewPrizes: the same, a spin in progress not looked at.)
handleSpinRefused_fewPrizes == Cardinality(pagePrizes) < 2
handleSpinRefused == isSpinning \/ Cardinality(pagePrizes) < 2

\* CollaboratorRoleta handleSpin; winnerData: the prize at the random index.
handleSpin(winnerData) ==
  /\ mounted = "collaborator"
  /\ wheelStep
  /\ UNCHANGED <<mounted, step, participant, isSpun, isWinnerModalOpen>>
  /\ IF handleSpinRefused
     THEN /\ winnerData = None
          /\ UNCHANGED <<isSpinning, winner, winningPrizeId, timers>>
          /\ Returned("handleSpin", "refused")
     ELSE /\ winnerData \in pagePrizes
          /\ winner' = winnerData
          /\ winningPrizeId' = winnerData.id
          /\ isSpinning' = TRUE
          /\ timers' = timers + 1
          /\ last' = [op |-> "handleSpin", res |-> "started", val |-> winnerData.id]

\* CollaboratorRoleta: the callback handleSpin gave setTimeout is run.
\* (spinTimeout_noDialog: the same, the winner dialog left as it is.)
spinTimeout_noDialog ==
  /\ mounted = "collaborator"
  /\ timers > 0
  /\ timers' = timers - 1
  /\ isSpinning' = FALSE
  /\ wheelStep
  /\ UNCHANGED <<mounted, step, participant, isSpun, winner, winningPrizeId,
                 isWinnerModalOpen>>
  /\ Returned("spinTimeout", "void")
spinTimeout ==
  /\ mounted = "collaborator"
  /\ timers > 0
  /\ timers' = timers - 1
  /\ isSpinning' = FALSE
  /\ isWinnerModalOpen' = TRUE
  /\ wheelStep
  /\ UNCHANGED <<mounted, step, participant, isSpun, winner, winningPrizeId>>
  /\ Returned("spinTimeout", "void")

\* CollaboratorRoleta: onClose of the winner dialog.
closeWinnerModal ==
  /\ mounted = "collaborator"
  /\ isWinnerModalOpen' = FALSE
  /\ wheelStep
  /\ UNCHANGED <<mounted, step, participant, isSpun, isSpinning, winner, winningPrizeId,
                 timers>>
  /\ Returned("closeWinnerModal", "void")

\* PublicRoleta handleRegisterChange: a field of the form is typed.
handleRegisterChange(name, value) ==
  /\ mounted = "public"
  /\ participant' = [participant EXCEPT ![name] = value]
  /\ wheelStep
  /\ UNCHANGED <<mounted, step, isSpun, isSpinning, winner, winningPrizeId,
                 isWinnerModalOpen, timers>>
  /\ Returned("handleRegisterChange", "void")

\* PublicRoleta handleRegisterSubmit
handleRegisterSubmit ==
  /\ mounted = "public"
  /\ wheelStep
  /\ UNCHANGED <<mounted, participant, isSpun, isSpinning, winner, winningPrizeId,
                 isWinnerModalOpen, timers>>
  /\ IF participant.name # Empty /\ participant.email # Empty /\ participant.phone # Empty
     THEN /\ step' = "spin"
          /\ Returned("handleRegisterSubmit", "spin")
     ELSE /\ UNCHANGED step
          /\ Returned("handleRegisterSubmit", "register")

\* PublicRoleta handleSpin: the request is dropped (first line of the handler).
\* (publicHandleSpinRefused_again: the same, an earlier spin not looked at.)
publicHandleSpinRefused_again == isSpinning \/ Cardinality(pagePrizes) < 2
publicHandleSpinRefused == isSpun \/ isSpinning \/ Cardinality(pagePrizes) < 2

\* PublicRoleta handleSpin; winnerData: the prize at the random index.
publicHandleSpin(winnerData) ==
  /\ mounted = "public"
  /\ wheelStep
  /\ UNCHANGED <<mounted, step, participant, isWinnerModalOpen>>
  /\ IF publicHandleSpinRefused
     THEN /\ winnerData = None
          /\ UNCHANGED <<isSpun, isSpinning, winner, winningPrizeId, timers>>
          /\ Returned("handleSpin", "refused")
     ELSE /\ winnerData \in pagePrizes
          /\ isSpun' = TRUE
          /\ winner' = winnerData
          /\ winningPrizeId' = winnerData.id
          /\ isSpinning' = TRUE
          /\ timers' = timers + 1
          /\ last' = [op |-> "handleSpin", res |-> "started", val |-> winnerData.id]

\* PublicRoleta: the callback handleSpin gave setTimeout is run.
publicSpinTimeout ==
  /\ mounted = "public"
  /\ timers > 0
  /\ timers' = timers - 1
  /\ isSpinning' = FALSE
  /\ isWinnerModalOpen' = TRUE
  /\ wheelStep
  /\ UNCHANGED <<mounted, step, participant, isSpun, winner, winningPrizeId>>
  /\ Returned("spinTimeout", "void")

\* PublicRoleta handleCloseWinnerModal
handleCloseWinnerModal ==
  /\ mounted = "public"
  /\ isWinnerModalOpen' = FALSE
  /\ wheelStep
  /\ UNCHANGED <<mounted, step, participant, isSpun, isSpinning, winner, winningPrizeId,
                 timers>>
  /\ Returned("handleCloseWinnerModal", "void")

\* ------------------------------------------------------------ SpecWheel
\* The prizes company 1 has when a wheel page is opened: "p", "q", "r".
WheelPrizes ==
  { [id |-> 1, company_id |-> 1, name |-> <<112>>],
    [id |-> 2, company_id |-> 1, name |-> <<113>>],
    [id |-> 3, company_id |-> 1, name |-> <<114>>] }

\* Either a collaborator of company 1 has checked in and opens the wheel page, the
\* collaborator's fetch awaiting its answer; or a visitor with no session has opened
\* the public page of company 1 and the page's load has mirrored the company and the
\* prizes it has.
InitWheel ==
  /\ organizersT = SyncOrganizers
  /\ eventsT = SyncEvents
  /\ rafflesT = SyncRaffles
  /\ participantsT = << >>
  /\ companiesT = SyncCompanies
  /\ collaboratorsT = SyncCollaborators
  /\ loggedInOrganizer = None
  /\ selectedEventId = NoId
  /\ selectedRaffleId = NoId
  /\ isSuperAdmin = FALSE
  /\ impersonatingFromAdmin = FALSE
  /\ organizers = {}
  /\ events = {}
  /\ raffles = {}
  /\ participants = {}
  /\ collaborators = {}
  /\ \/ /\ mounted = "collaborator"
        /\ prizesT = WheelPrizes
        /\ \E c \in SyncCollaborators : loggedInCollaborator = collaboratorToCamel(c)
        /\ companies = {}
        /\ prizes = {}
     \/ /\ mounted = "public"
        /\ prizesT \in SUBSET WheelPrizes
        /\ loggedInCollaborator = None
        /\ companies = { companyToCamel(c) : c \in SyncCompanies }
        /\ prizes = { prizeToCamel(z) : z \in prizesT }
  /\ started = scopedFetch(isSuperAdmin, impersonatingFromAdmin,
                           loggedInOrganizer, loggedInCollaborator)
  /\ inflight = {started} \ {NoFetch}
  /\ pending = {}
  /\ answers = {}
  /\ doc = NoDoc
  /\ wheelState
  /\ last = [op |-> "init", res |-> "void", val |-> NoId]

\* What is typed in a field of the registration form: nothing, or "a".
FieldValues == { Empty, <<97>> }
\* The wheel with its button is drawn: by the collaborator page once the company is
\* mirrored, by the public page once the company is mirrored and the step is 'spin'.
collaboratorWheel == mounted = "collaborator" /\ wheelPage
publicForm == mounted = "public" /\ company # None /\ step = "register"
publicWheel == mounted = "public" /\ company # None /\ step # "register"

NextWheel ==
  \/ fetchCollaboratorData(1, AllFetched)
  \/ collaboratorWheel /\ \E z \in pagePrizes \cup {None} : handleSpin(z)
  \/ spinTimeout
  \/ collaboratorWheel /\ isWinnerModalOpen /\ closeWinnerModal
  \/ collaboratorWheel /\ \E d \in PrizeForms :
       savePrize(loggedInCollaboratorCompany.id, d, NoId, TRUE)
  \/ collaboratorWheel /\ \E id \in prizeIds : deletePrize(id, TRUE)
  \/ publicForm /\ \E name \in {"name", "email", "phone"}, value \in FieldValues :
       handleRegisterChange(name, value)
  \/ publicForm /\ handleRegisterSubmit
  \/ publicWheel /\ \E z \in pagePrizes \cup {None} : publicHandleSpin(z)
  \/ publicSpinTimeout
  \/ publicWheel /\ isWinnerModalOpen /\ handleCloseWinnerModal

SpecWheel == InitWheel /\ [][NextWheel]_vars
\* The browser runs a timeout callback once its delay has passed.
SpecWheelLive == SpecWheel /\ WF_vars(spinTimeout) /\ WF_vars(publicSpinTimeout)

\* ------------------------------------------------------------ wheel properties
\* The spin requests the collaborator page can be given.
SpinRequests == pagePrizes \cup {None}

\* C21: on the collaborator wheel a spin request starts a spin exactly when the company
\* has at least two prizes, and with two prizes or more a spin selecting any one of
\* them can start.
C21_SpinGate ==
  /\ [][ collaboratorWheel =>
           \A z \in SpinRequests :
             handleSpin(z) => (last'.res = "started" <=> Cardinality(pagePrizes) >= 2)
       ]_vars
  /\ [](collaboratorWheel /\ Cardinality(pagePrizes) >= 2 =>
          \A z \in pagePrizes : ENABLED (handleSpin(z) /\ last'.res = "started"))
\* C21, amended: ... exactly when the company has at least two prizes and no spin is in
\* progress; with two prizes or more and no spin in progress a spin selecting any one
\* of them can start, the one selected before included.
C21_SpinGateAmended ==
  /\ [][ collaboratorWheel =>
           \A z \in SpinRequests :
             handleSpin(z) =>
               (last'.res = "started" <=> (~isSpinning /\ Cardinality(pagePrizes) >= 2))
       ]_vars
  /\ [](collaboratorWheel /\ ~isSpinning /\ Cardinality(pagePrizes) >= 2 =>
          \A z \in pagePrizes : ENABLED (handleSpin(z) /\ winner' = z /\ isSpinning'))
\* A spin has selected a prize and ended, the dialog is closed, and the prize is still
\* one of two or more on the wheel: the next spin can select it again.
C21_Witness ==
  /\ collaboratorWheel
  /\ ~isSpinning /\ ~isWinnerModalOpen
  /\ winner \in pagePrizes
  /\ Cardinality(pagePrizes) >= 2
  /\ last.op = "closeWinnerModal"

\* C29: in both pages a spin request during a spin changes nothing; the timeout of a
\* spin sets the spinning flag false and opens the winner dialog; from the start of a
\* spin to its timeout the selected prize stays, and the dialog is opened by no other
\* step; and every spin is followed by its timeout.
C29_SpinEnds ==
  /\ [][ isSpinning =>
           /\ \A z \in SpinRequests :
                (handleSpin(z) \/ publicHandleSpin(z)) =>
                  (last'.res = "refused" /\ UNCHANGED <<storeVars, mirrorVars, wheelVars>>)
           /\ winner' = winner /\ winningPrizeId' = winningPrizeId
           /\ (isWinnerModalOpen' /\ ~isWinnerModalOpen) => (spinTimeout \/ publicSpinTimeout)
           /\ ~isSpinning' => (spinTimeout \/ publicSpinTimeout)
       ]_vars
  /\ [][ (spinTimeout \/ publicSpinTimeout) =>
           /\ isSpinning
           /\ ~isSpinning' /\ isWinnerModalOpen'
           /\ winner' = winner /\ winner # None /\ winner.id = winningPrizeId
       ]_vars
  /\ [][ (~isSpinning /\ isSpinning') =>
           /\ isWinnerModalOpen' = isWinnerModalOpen
           /\ last'.op = "handleSpin" /\ winner'.id = last'.val
       ]_vars
  /\ [](isSpinning <=> timers = 1)
  /\ (isSpinning ~> (~isSpinning /\ isWinnerModalOpen))
\* The timeout of a spin has fired: the spin has ended and the dialog shows its prize.
C29_Witness ==
  /\ last.op = "spinTimeout"
  /\ ~isSpinning /\ isWinnerModalOpen
  /\ winner # None

\* C30: on the public page a spin starts only in the 'spin' step, which is entered only
\* with name, e-mail and phone non-empty; once a spin has started the selected prize
\* never changes and no further spin starts.
C30_OneSpin ==
  /\ [](mounted = "public" =>
          /\ (isSpun \/ isSpinning \/ winner # None) => step = "spin"
          /\ step = "spin" => /\ participant.name # Empty
                              /\ participant.email # Empty
                              /\ participant.phone # Empty)
  /\ [][ mounted = "public" =>
           /\ isSpun => /\ isSpun' /\ winner' = winner /\ winningPrizeId' = winningPrizeId
                        /\ timers' <= timers
           /\ (~isSpun /\ isSpun') => (step = "spin" /\ step' = "spin")
           /\ (timers' > timers) => (~isSpun /\ isSpun')
           /\ (step = "spin") => (step' = "spin" /\ participant' = participant)
       ]_vars
\* On the public page a spin has ended and a later spin request was refused.
C30_Witness ==
  /\ mounted = "public"
  /\ isSpun /\ ~isSpinning /\ winner # None
  /\ Cardinality(pagePrizes) >= 2
  /\ last.op = "handleSpin" /\ last.res = "refused"
====
